---- MODULE Spec2Model ----
(***************************************************************************)
(* Model of the grant proposal processor (src/data_processor.py).          *)
(*                                                                         *)
(* Time is counted in units of 1/UnitsPerDay of a day.  A raw timestamp    *)
(* is the string (or null / NaN) found in a pull-request record; it is     *)
(* described by its format and, when it denotes a time, by its wall-clock  *)
(* reading and its UTC offset.  A float number of days is kept as the      *)
(* integer number of units (days * UnitsPerDay).                           *)
(***************************************************************************)
EXTENDS Integers, Sequences, FiniteSets, TLC

\* ------------------------------------------------------------------ bounds
UnitsPerDay == 2      \* resolution of the clock: units per day
MaxTime     == 2      \* wall-clock readings of a timestamp: 0..MaxTime
MaxTick     == 5      \* how far the clock advances past StartNow
MaxLabels   == 2      \* labels carried by one record
MaxBatch    == 2      \* records of one process_all_proposals run
MaxRepos    == 2      \* repositories of one process_all_proposals run
MaxRows     == 3      \* rows of a table handed to the aggregations
MaxComments == 2      \* comments of one record
MaxReviews  == 1      \* reviews of one record
MaxWords    == 1      \* words a description holds, or lacks of the whole vocabulary
MaxStored   == 2      \* proposals handed to one save_proposals call
MaxTokens   == 4      \* tokens of a proposal body scanned for milestones
MaxNumber   == 2      \* numbers written in such a body: 1..MaxNumber
PerPage     == 2      \* per_page: pull requests the remote puts on a full page
MaxPages    == 3      \* pages for which the remote's behaviour is scripted

\* ------------------------------------------------------- program constants
StaleDays == 60       \* data_processor.py:99

\* the clock starts one unit before an epoch-0 record reaches StaleDays
StartNow == StaleDays * UnitsPerDay - 1
MaxNow   == StartNow + MaxTick

\* the spec scenario: created 2024-01-01, merged 2024-01-10
ScenarioWall == 9 * UnitsPerDay

\* config.CATEGORIES: the known category vocabulary
CATEGORIES == {"APPROVED", "REJECTED", "PENDING", "STALE", "UNKNOWN"}

\* ------------------------------------------------------------ raw values
\* formats of a raw timestamp
\*   null    : None, or the key is missing
\*   nan     : float NaN (a null read back from a table)
\*   garbage : a string no parser accepts
\*   loose   : un-padded "2024-1-1T0:0:0", accepted by strptime only
\*   naive   : ISO 8601 without offset
\*   z       : ISO 8601 with the Z suffix
\*   offset  : ISO 8601 with a +hh:mm offset of one unit
RawDate(f, w, o) == [fmt |-> f, wall |-> w, off |-> o]
NullDate    == RawDate("null", 0, 0)
NanDate     == RawDate("nan", 0, 0)
GarbageDate == RawDate("garbage", 0, 0)

Walls == 0..MaxTime

TimedDates(ws) ==
    {RawDate("naive", w, 0) : w \in ws} \cup {RawDate("z", w, 0) : w \in ws}
        \cup {RawDate("offset", w, 1) : w \in ws}

RawDates(ws) ==
    {NullDate, NanDate, GarbageDate} \cup {RawDate("loose", w, 0) : w \in ws}
        \cup TimedDates(ws)

\* state of a record; MissingState is the default '' of an absent key
MissingState == ""
States == {"open", "closed", "draft", MissingState}

LabelNames == {"bug", "approved", "Stale"}

\* str.upper() over the vocabulary of the model
Upper(s) ==
    CASE s = "open"     -> "OPEN"
      [] s = "closed"   -> "CLOSED"
      [] s = "draft"    -> "DRAFT"
      [] s = "bug"      -> "BUG"
      [] s = "approved" -> "APPROVED"
      [] s = "Stale"    -> "STALE"
      [] OTHER          -> s

SeqsUpTo(S, n) == UNION {[1..k -> S] : k \in 0..n}

NoUser == "<None>"

\* ------------------------------------------------------------- datetimes
\* a datetime object, or None (ok = FALSE)
NoneDT == [ok |-> FALSE, aware |-> FALSE, wall |-> 0, off |-> 0]
DT(a, w, o) == [ok |-> TRUE, aware |-> a, wall |-> w, off |-> o]

\* the UTC instant of an aware datetime
Utc(dt) == dt.wall - dt.off

\* datetime.fromisoformat after 'Z' is replaced by '+00:00'
fromisoformat(d) ==
    CASE d.fmt = "naive"  -> DT(FALSE, d.wall, 0)
      [] d.fmt = "z"      -> DT(TRUE, d.wall, 0)
      [] d.fmt = "offset" -> DT(TRUE, d.wall, d.off)
      [] OTHER            -> NoneDT

\* datetime.strptime with '%Y-%m-%dT%H:%M:%S': accepts un-padded fields
strptime(d) ==
    IF d.fmt = "loose" THEN DT(FALSE, d.wall, 0) ELSE NoneDT

\* the strptime fallbacks: when strptime succeeds, dt.replace(tzinfo=
\* datetime.timezone.utc) raises AttributeError (the datetime class has no
\* attribute timezone) and the bare except ends in None; when it fails, None
strptime_fallback(d) ==
    IF strptime(d).ok THEN NoneDT ELSE NoneDT

parse_date(d) ==
    IF d.fmt = "null" THEN NoneDT
    ELSE IF fromisoformat(d).ok THEN fromisoformat(d)
    ELSE strptime_fallback(d)

\* a - b on datetimes: a timedelta in units, or TypeError when exactly one
\* of the two is timezone-aware
Minus(a, b) ==
    IF a.aware /= b.aware THEN [ok |-> FALSE, units |-> 0]
    ELSE IF a.aware THEN [ok |-> TRUE, units |-> Utc(a) - Utc(b)]
    ELSE [ok |-> TRUE, units |-> a.wall - b.wall]

\* timedelta.days: whole days, rounded towards minus infinity
Days(units) == units \div UnitsPerDay

\* ------------------------------------------------------ determine_category
RaiseTypeError      == "raise TypeError"
RaiseAttributeError == "raise AttributeError"
Raises == {RaiseTypeError, RaiseAttributeError}

\* merged_at is not None and pd.notna(merged_at)
NotNull(d) == d.fmt \notin {"null", "nan"}

RECURSIVE LabelCategory(_, _)
\* the label loop of determine_category: the first label whose upper-cased
\* name is a known category, else PENDING
LabelCategory(labels, i) ==
    IF i > Len(labels) THEN "PENDING"
    ELSE IF Upper(labels[i]) \in CATEGORIES THEN Upper(labels[i])
    ELSE LabelCategory(labels, i + 1)

\* the staleness test; `clock` is the naive datetime.now()
StaleCheck(created, clock) ==
    LET delta == Minus(DT(FALSE, clock, 0), created)
    IN  IF ~delta.ok THEN RaiseTypeError
        ELSE IF Days(delta.units) > StaleDays THEN "STALE"
        ELSE "continue"

AfterStale(p) ==
    IF p.merged \/ NotNull(p.merged_at) THEN "APPROVED"
    ELSE IF Upper(p.state) = "CLOSED" THEN "REJECTED"
    ELSE IF Upper(p.state) = "OPEN" THEN LabelCategory(p.labels, 1)
    ELSE "UNKNOWN"

\* variant: the merge check placed before the staleness check
determine_category_MergeFirst(p, clock) ==
    LET created == parse_date(p.created_at)
        stale   == IF Upper(p.state) = "OPEN" /\ created.ok
                   THEN StaleCheck(created, clock) ELSE "continue"
    IN  IF p.merged \/ NotNull(p.merged_at) THEN "APPROVED"
        ELSE IF stale /= "continue" THEN stale ELSE AfterStale(p)

determine_category(p, clock) ==
    LET created == parse_date(p.created_at)
        stale   == IF Upper(p.state) = "OPEN" /\ created.ok
                   THEN StaleCheck(created, clock) ELSE "continue"
    IN  IF stale /= "continue" THEN stale ELSE AfterStale(p)

\* -------------------------------------------------- calculate_approval_time
NoneTime        == [tag |-> "none", units |-> 0]
FloatTime(u)    == [tag |-> "float", units |-> u]
RaiseTime       == [tag |-> "raise", units |-> 0]
NoTime          == [tag |-> "-", units |-> 0]

\* the difference terminal - created after the "ensure timezone-aware" lines:
\* dt.replace(tzinfo=datetime.timezone.utc) raises AttributeError, so a naive
\* datetime on either side never reaches the subtraction
TimeBetween(created, terminal) ==
    IF ~created.aware \/ ~terminal.aware THEN RaiseTime
    ELSE FloatTime(Minus(terminal, created).units)

\* variant: the close time is never consulted
calculate_approval_time_NoClosed(p) ==
    LET created == parse_date(p.created_at)
        merged  == parse_date(p.merged_at)
    IN  IF ~created.ok THEN NoneTime
        ELSE IF merged.ok THEN TimeBetween(created, merged)
        ELSE NoneTime

calculate_approval_time(p) ==
    LET created == parse_date(p.created_at)
        merged  == parse_date(p.merged_at)
        closed  == parse_date(p.closed_at)
    IN  IF ~created.ok THEN NoneTime
        ELSE IF merged.ok THEN TimeBetween(created, merged)
        ELSE IF closed.ok THEN TimeBetween(created, closed)
        ELSE NoneTime

\* --------------------------------------------------------- process_proposal
\* a raw pull-request record (the fields the processor's decisions read)
Proposal(st, mg, cr, ma, ca, ls, us) ==
    [state |-> st, merged |-> mg, created_at |-> cr, merged_at |-> ma,
     closed_at |-> ca, labels |-> ls, user |-> us]

NoProposal == Proposal(MissingState, FALSE, NullDate, NullDate, NullDate, <<>>, "")

\* the processed record: the raw fields copied, the derived ones computed
Row(p, cat, t) ==
    [state |-> p.state, merged |-> p.merged, created_at |-> p.created_at,
     closed_at |-> p.closed_at, merged_at |-> p.merged_at, author |-> p.user,
     category |-> cat, approval_time_days |-> t, labels |-> p.labels]

NoRow == Row(NoProposal, "-", NoTime)

\* process_proposal builds the dict field by field; the first call that
\* raises ends it: user.get on a null user, determine_category,
\* calculate_approval_time
process_proposal(p, clock) ==
    IF p.user = NoUser THEN [exc |-> RaiseAttributeError, row |-> NoRow]
    ELSE IF determine_category(p, clock) \in Raises
         THEN [exc |-> determine_category(p, clock), row |-> NoRow]
    ELSE IF calculate_approval_time(p).tag = "raise"
         THEN [exc |-> RaiseAttributeError, row |-> NoRow]
    ELSE [exc |-> "",
          row |-> Row(p, determine_category(p, clock), calculate_approval_time(p))]

\* ------------------------------------------------------------------ state
VARIABLES
    now,                 \* the wall clock read by datetime.now()
    op,                  \* the function applied last ("idle" between calls)
    proposal,            \* its argument
    category,            \* outcome of determine_category
    approval_time_days,  \* outcome of calculate_approval_time
    processed,           \* outcome of process_proposal
    proposals,           \* process_all_proposals: the input, one list per repository
    pc,                  \* process_all_proposals: "loop", "returned", "raised"
    idx,                 \* process_all_proposals: records consumed so far
    all_processed,       \* process_all_proposals: rows collected so far
    errors,              \* process_all_proposals: records skipped and logged
    df,                  \* process_all_proposals: rows of the returned table
    df_columns,          \* process_all_proposals: columns of the returned table
    table,               \* the Proposal table handed to the aggregations
    metrics,             \* outcome of calculate_performance_metrics
    curator_analysis,    \* what show_curator_analysis has accumulated
    curators,            \* outcome of extract_curators
    rejection_reason,    \* outcome of extract_rejection_reason
    evaluation,          \* outcome of analyze_proposal_content
    sum_mode,            \* how the interpreter's sum() added the weighted scores
    risk_args,           \* arguments of _determine_risk_level
    risk_level,          \* outcome of _determine_risk_level
    report,              \* the AI Recommendation of generate_curator_report
    backend,             \* GrantDatabase: "sqlite", or "session_state" with cloud storage
    session_state,       \* CloudStorage: the Streamlit session state
    proposals_table,     \* SQLite: rows of the proposals table
    metrics_table,       \* SQLite: metric_value by metric_name
    saved_proposals,     \* argument of the latest save_proposals (none after a clear)
    saved_metrics,       \* argument of the latest save_metrics (empty after a clear)
    save_result,         \* exception raised by the latest call, if any
    milestone_text,      \* argument of extract_milestones
    milestones_found,    \* outcome of extract_milestones
    script,              \* get_pull_requests: how the remote answers page 1, 2, ...
    page,                \* get_pull_requests: the page asked for next
    all_prs,             \* get_pull_requests: pull requests collected so far
    requested,           \* get_pull_requests: the pages asked for, in order
    fetch_pc,            \* the client call: "idle", "loop", "returned", "raised"
    remotes,             \* fetch_all_grant_proposals: how the remote behaved, by repository
    all_proposals        \* fetch_all_grant_proposals: the mapping built so far

callVars  == <<op, proposal, category, approval_time_days, processed>>
batchVars == <<proposals, pc, idx, all_processed, errors, df, df_columns>>
metricVars == <<table, metrics, curator_analysis>>
extractVars == <<curators, rejection_reason>>
evalVars  == <<evaluation, sum_mode, risk_args, risk_level, report>>
storeVars == <<backend, session_state, proposals_table, metrics_table,
               saved_proposals, saved_metrics, save_result>>
scanVars  == <<milestone_text, milestones_found>>
fetchVars == <<script, page, all_prs, requested, fetch_pc, remotes,
               all_proposals>>
outerVars == <<storeVars, scanVars, fetchVars>>
auxVars   == <<metricVars, extractVars, evalVars, outerVars>>
vars      == <<now, callVars, batchVars, auxVars>>

NoProcessed == [exc |-> "", row |-> NoRow]

\* ---------------------------------------------------------------- inputs
TerminalWalls == Walls \cup {ScenarioWall}

\* arguments of determine_category
CategoryProposals ==
    {Proposal(st, mg, cr, ma, NullDate, ls, "alice") :
        st \in States, mg \in BOOLEAN, cr \in RawDates(Walls),
        ma \in {NullDate, NanDate, GarbageDate, RawDate("z", 1, 0)},
        ls \in SeqsUpTo(LabelNames, MaxLabels)}

\* arguments of calculate_approval_time
TimingProposals ==
    {Proposal("closed", FALSE, cr, ma, ca, <<>>, "alice") :
        cr \in RawDates(Walls), ma \in RawDates(TerminalWalls),
        ca \in RawDates(TerminalWalls)}

\* the scenario {state closed, merged true, merged_at 2024-01-10,
\* created_at 2024-01-01}
ScenarioProposal ==
    Proposal("closed", TRUE, RawDate("naive", 0, 0),
             RawDate("naive", ScenarioWall, 0), NullDate, <<>>, "alice")

\* records of a batch
BatchProposals ==
    {Proposal("open", FALSE, cr, NullDate, NullDate, <<>>, "alice") :
        cr \in {NullDate, GarbageDate, RawDate("naive", 0, 0), RawDate("z", 0, 0)}}
    \cup
    {Proposal("closed", ma.fmt /= "null", cr, ma, NullDate, <<>>, "alice") :
        cr \in {NullDate, GarbageDate, RawDate("naive", 0, 0), RawDate("z", 0, 0)},
        ma \in {NullDate, RawDate("z", 1, 0)}}
    \cup
    {Proposal("closed", FALSE, NullDate, NullDate, NullDate, <<>>, NoUser)}

RECURSIVE Sum(_)
Sum(s) == IF s = <<>> THEN 0 ELSE Head(s) + Sum(Tail(s))

RECURSIVE Flatten(_)
\* the records in the order the two nested loops visit them
Flatten(ps) == IF ps = <<>> THEN <<>> ELSE Head(ps) \o Flatten(Tail(ps))

\* the records f distributed over repositories of the given sizes
Cut(f, sizes) ==
    [r \in 1..Len(sizes) |->
        SubSeq(f, Sum(SubSeq(sizes, 1, r - 1)) + 1, Sum(SubSeq(sizes, 1, r)))]

\* the mappings repository -> list of records handed to process_all_proposals
Batches ==
    UNION {{Cut(f, sz) : sz \in {t \in SeqsUpTo(0..MaxBatch, MaxRepos) :
                                   Sum(t) = Len(f)}} :
           f \in SeqsUpTo(BatchProposals, MaxBatch)}

\* ------------------------------------------ calculate_performance_metrics
\* a row of the Proposal table, by the columns the aggregations read
TableRow(repo, cat, t, cs) ==
    [repository |-> repo, category |-> cat, approval_time_days |-> t,
     curators |-> cs]

\* values of the curators column: a list, as process_proposal leaves it;
\* after a reload from storage a JSON string of a list, a string that
\* json.loads rejects, or NaN
CuratorList(items) == [kind |-> "list", items |-> items]
CuratorJson(items) == [kind |-> "json", items |-> items]
CuratorBadJson     == [kind |-> "badjson", items |-> <<>>]
CuratorNaN         == [kind |-> "nan", items |-> <<>>]

Range(s) == {s[i] : i \in DOMAIN s}

\* the quotient n / d, kept exact
Ratio(n, d) == [num |-> n, den |-> d]
Whole(n)    == Ratio(n, 1)

EmptyDict == [k \in {} |-> 0]

\* len(df[df['category'] == cat])
CountCategory(frame, cat) == Len(SelectSeq(frame, LAMBDA r : r.category = cat))

\* variant: the quotient without the test for an empty table
approval_rate_Unguarded(approved, total) == Ratio(approved, total)

approval_rate(approved, total) ==
    IF total > 0 THEN Ratio(approved, total) ELSE Whole(0)

\* df[df['approval_time_days'].notna()]['approval_time_days']
approval_times(frame) ==
    LET rows == SelectSeq(frame, LAMBDA r : r.approval_time_days.tag = "float")
    IN  [i \in 1..Len(rows) |-> rows[i].approval_time_days.units]

RECURSIVE sort_values(_)
sort_values(vals) ==
    IF vals = <<>> THEN <<>>
    ELSE LET rest == sort_values(Tail(vals))
         IN  SelectSeq(rest, LAMBDA v : v <= Head(vals)) \o <<Head(vals)>>
                \o SelectSeq(rest, LAMBDA v : v > Head(vals))

mean(vals) == Ratio(Sum(vals), Len(vals))

median(vals) ==
    LET sorted == sort_values(vals)
        n == Len(vals)
    IN  IF n % 2 = 1 THEN Whole(sorted[(n + 1) \div 2])
        ELSE Ratio(sorted[n \div 2] + sorted[n \div 2 + 1], 2)

min(vals) == Whole(CHOOSE v \in Range(vals) : \A w \in Range(vals) : v <= w)
max(vals) == Whole(CHOOSE v \in Range(vals) : \A w \in Range(vals) : v >= w)

\* the four approval-time entries, added only when a sample exists
time_metrics(frame) ==
    IF Len(approval_times(frame)) > 0
    THEN [avg_approval_time_days    |-> mean(approval_times(frame)),
          median_approval_time_days |-> median(approval_times(frame)),
          min_approval_time_days    |-> min(approval_times(frame)),
          max_approval_time_days    |-> max(approval_times(frame))]
    ELSE EmptyDict

\* len(set(...)) over the curators of all rows
unique_curators(frame) ==
    Cardinality(UNION {Range(frame[i].curators.items) : i \in DOMAIN frame})

\* variant: the whole table stands for every repository
repo_data_Unfiltered(frame, repo) == frame

\* df[df['repository'] == repo]
repo_data(frame, repo) == SelectSeq(frame, LAMBDA r : r.repository = repo)

repo_metrics(data) ==
    [total    |-> Len(data),
     approved |-> CountCategory(data, "APPROVED"),
     rejected |-> CountCategory(data, "REJECTED"),
     pending  |-> CountCategory(data, "PENDING"),
     stale    |-> CountCategory(data, "STALE"),
     approval_rate |-> approval_rate(CountCategory(data, "APPROVED"), Len(data)),
     avg_approval_time |-> IF Len(approval_times(data)) > 0
                           THEN mean(approval_times(data)) ELSE Whole(0),
     unique_curators |-> unique_curators(data)]

program_metrics(frame) ==
    [repo \in {frame[i].repository : i \in DOMAIN frame} |->
        repo_metrics(repo_data(frame, repo))]

\* the returned dict, by its counts, rate, approval-time, curator and
\* per-repository entries (the author, bounty and value-count entries are
\* computed from other columns)
calculate_performance_metrics(frame) ==
    [total_proposals    |-> Len(frame),
     approved_proposals |-> CountCategory(frame, "APPROVED"),
     rejected_proposals |-> CountCategory(frame, "REJECTED"),
     pending_proposals  |-> CountCategory(frame, "PENDING"),
     stale_proposals    |-> CountCategory(frame, "STALE"),
     approval_rate |-> approval_rate(CountCategory(frame, "APPROVED"), Len(frame)),
     unique_curators |-> unique_curators(frame),
     program_metrics |-> program_metrics(frame)]
    @@ time_metrics(frame)

\* --------------------------------------------------- show_curator_analysis
\* the curators of a row as the loop sees them: a stored string goes
\* through json.loads, and one that does not decode counts as []
LoadCurators(c) ==
    IF c.kind = "json" THEN CuratorList(c.items)
    ELSE IF c.kind = "badjson" THEN CuratorList(<<>>)
    ELSE c

NoTally == [all_curators |-> <<>>, curator_proposals |-> EmptyDict]

RECURSIVE TallyCurators(_, _, _)
\* the inner loop over the curators of row i
TallyCurators(acc, items, i) ==
    IF items = <<>> THEN acc
    ELSE LET curator == Head(items)
             listed  == IF curator \in DOMAIN acc.curator_proposals
                        THEN acc.curator_proposals[curator] ELSE <<>>
         IN  TallyCurators(
                [all_curators |-> Append(acc.all_curators, curator),
                 curator_proposals |->
                     (curator :> Append(listed, i)) @@ acc.curator_proposals],
                Tail(items), i)

\* variant: a proposal counts for its first curator only
TallyRow_FirstOnly(acc, row, i) ==
    IF LoadCurators(row.curators).kind = "list"
    THEN TallyCurators(acc, SelectSeq(LoadCurators(row.curators).items,
                LAMBDA c : c = LoadCurators(row.curators).items[1]), i)
    ELSE acc

\* the body of the loop over the rows
TallyRow(acc, row, i) ==
    IF LoadCurators(row.curators).kind = "list"
    THEN TallyCurators(acc, LoadCurators(row.curators).items, i)
    ELSE acc

RECURSIVE TallyRows(_, _, _)
TallyRows(acc, frame, i) ==
    IF i > Len(frame) THEN acc
    ELSE TallyRows(TallyRow(acc, frame[i], i), frame, i + 1)

\* pd.Series(s).value_counts()
value_counts(s) == [c \in Range(s) |-> Cardinality({i \in DOMAIN s : s[i] = c})]

\* the accumulated lists and the per-curator counts; with no curator at
\* all the function returns before it counts
show_curator_analysis(frame) ==
    LET acc == TallyRows(NoTally, frame, 1)
    IN  [all_curators      |-> acc.all_curators,
         curator_proposals |-> acc.curator_proposals,
         curator_counts    |-> IF acc.all_curators = <<>> THEN EmptyDict
                               ELSE value_counts(acc.all_curators)]

\* ------------------------------------------------------ tables (SpecMetrics)
Repos == {"grants", "fast-grants"}

CategoryTimes ==
    {<<"APPROVED", FloatTime(1)>>, <<"APPROVED", FloatTime(6)>>,
     <<"REJECTED", FloatTime(2)>>, <<"REJECTED", NoneTime>>,
     <<"PENDING", NoneTime>>, <<"STALE", NoneTime>>, <<"UNKNOWN", NoneTime>>}

MetricRows ==
    {TableRow(repo, ct[1], ct[2], CuratorList(<<>>)) :
        repo \in Repos, ct \in CategoryTimes}

CuratorValues ==
    {CuratorList(<<>>), CuratorList(<<"alice">>), CuratorList(<<"alice", "bob">>),
     CuratorJson(<<"bob">>), CuratorBadJson, CuratorNaN}

CuratorRows ==
    {TableRow(repo, "PENDING", NoneTime, cs) : repo \in Repos, cs \in CuratorValues}

Tables == SeqsUpTo(MetricRows, MaxRows) \cup SeqsUpTo(CuratorRows, MaxRows)

\* ------------------------------------- extract_curators, rejection reason
\* a pull-request record by the fields the two extractions read; a text is
\* the sequence of its characters
Comment(user, body) == [user |-> user, body |-> body]
Review(user)        == [user |-> user]
Discussion(author, merged, comments, reviews) ==
    [user |-> author, merged |-> merged, comments |-> comments,
     reviews |-> reviews]

\* the logins of the comments or reviews that carry one
Logins(items) == {items[i].user : i \in DOMAIN items} \ {NoUser}

\* list(s): the members of a set in whatever order the set iterates
Orderings(S) ==
    {f \in [1..Cardinality(S) -> S] : \A i, j \in DOMAIN f : f[i] = f[j] => i = j}

\* the lists extract_curators may return
extract_curators(p) == Orderings(Logins(p.comments) \cup Logins(p.reviews))

LowerCase ==
    [A |-> "a", B |-> "b", C |-> "c", D |-> "d", E |-> "e", F |-> "f",
     G |-> "g", H |-> "h", I |-> "i", J |-> "j", K |-> "k", L |-> "l",
     M |-> "m", N |-> "n", O |-> "o", P |-> "p", Q |-> "q", R |-> "r",
     S |-> "s", T |-> "t", U |-> "u", V |-> "v", W |-> "w", X |-> "x",
     Y |-> "y", Z |-> "z"]

\* str.lower()
lower(text) ==
    [i \in DOMAIN text |->
        IF text[i] \in DOMAIN LowerCase THEN LowerCase[text[i]] ELSE text[i]]

\* keyword in text
Contains(keyword, text) ==
    \E k \in 0..(Len(text) - Len(keyword)) :
        SubSeq(text, k + 1, k + Len(keyword)) = keyword

rejection_keywords ==
    {<<"r", "e", "j", "e", "c", "t">>,
     <<"r", "e", "j", "e", "c", "t", "e", "d">>,
     <<"d", "e", "c", "l", "i", "n", "e">>,
     <<"d", "e", "c", "l", "i", "n", "e", "d">>,
     <<"n", "o", "t", " ", "a", "p", "p", "r", "o", "v", "e", "d">>,
     <<"d", "o", "e", "s", " ", "n", "o", "t", " ", "m", "e", "e", "t">>,
     <<"i", "n", "s", "u", "f", "f", "i", "c", "i", "e", "n", "t">>,
     <<"i", "n", "c", "o", "m", "p", "l", "e", "t", "e">>,
     <<"d", "e", "n", "i", "e", "d">>}

\* variant: the keywords are looked for in the text as written
Matches_AsWritten(body) == \E keyword \in rejection_keywords : Contains(keyword, body)

\* any(keyword in body.lower() for keyword in rejection_keywords)
Matches(body) == \E keyword \in rejection_keywords : Contains(keyword, lower(body))

NoneReason   == [tag |-> "none", body |-> <<>>]
Reason(body) == [tag |-> "str", body |-> body]

RECURSIVE FirstMatch(_)
\* the loop over the comments
FirstMatch(comments) ==
    IF comments = <<>> THEN NoneReason
    ELSE IF Matches(Head(comments).body) THEN Reason(Head(comments).body)
    ELSE FirstMatch(Tail(comments))

extract_rejection_reason(p) ==
    IF p.merged THEN NoneReason ELSE FirstMatch(p.comments)

\* ------------------------------------------------ records (SpecExtract)
Lgtm        == <<"L", "G", "T", "M">>
Approved    == <<"a", "p", "p", "r", "o", "v", "e", "d">>
Reject      == <<"R", "E", "J", "E", "C", "T">>
NotApproved == <<"N", "o", "t", " ", "a", "p", "p", "r", "o", "v", "e", "d">>
Denied      == <<"d", "e", "n", "i", "e", "d", ".">>

Comments ==
    {Comment("alice", Lgtm), Comment("bob", Approved), Comment("bob", Reject),
     Comment("carol", NotApproved), Comment(NoUser, Denied), Comment("alice", <<>>)}

Discussions ==
    {Discussion(author, merged, comments, reviews) :
        author \in {"alice", NoUser}, merged \in BOOLEAN,
        comments \in SeqsUpTo(Comments, MaxComments),
        reviews \in SeqsUpTo({Review("alice"), Review("bob"), Review(NoUser)},
                             MaxReviews)}

\* ------------------------------------------------------ extract_milestones
\* A body is None or a text; a text is kept as its tokens, lower-cased as
\* body.lower() leaves them: the words the patterns name ("milestone" also
\* stands for "milestones", and so on), the separator ":" (or "-"), a
\* number, or any other word.
NoBody       == [tag |-> "none", tokens |-> <<>>]
Body(tokens) == [tag |-> "str", tokens |-> tokens]
Word(w)      == [kind |-> w, n |-> 0]
Number(n)    == [kind |-> "number", n |-> n]

\* the regular expressions, in the order they are tried
milestone_patterns ==
    << [form |-> "word:number", word |-> "milestone"],
       [form |-> "word:number", word |-> "phase"],
       [form |-> "word:number", word |-> "stage"],
       [form |-> "number word", word |-> "milestone"],
       [form |-> "number word", word |-> "phase"],
       [form |-> "number word", word |-> "stage"] >>

\* re.findall(pattern, text): the numbers captured by the matches
findall(pattern, tokens) ==
    IF pattern.form = "word:number"
    THEN {tokens[i + 2].n : i \in {j \in 1..(Len(tokens) - 2) :
                /\ tokens[j].kind = pattern.word
                /\ tokens[j + 1].kind = ":"
                /\ tokens[j + 2].kind = "number"}}
    ELSE {tokens[i].n : i \in {j \in 1..(Len(tokens) - 1) :
                /\ tokens[j].kind = "number"
                /\ tokens[j + 1].kind = pattern.word}}

\* max(int(match) for match in matches)
Largest(S) == CHOOSE x \in S : \A y \in S : y <= x

\* len(re.findall(r'milestone', text))
milestone_mentions(tokens) ==
    Cardinality({i \in DOMAIN tokens : tokens[i].kind = "milestone"})

\* the loop over the patterns from the k-th on: the first pattern with a
\* match returns the maximum of its own matches
RECURSIVE scan_patterns(_, _)
scan_patterns(k, tokens) ==
    IF k > Len(milestone_patterns) THEN milestone_mentions(tokens)
    ELSE IF findall(milestone_patterns[k], tokens) /= {}
         THEN Largest(findall(milestone_patterns[k], tokens))
    ELSE scan_patterns(k + 1, tokens)

extract_milestones(body) ==
    IF body.tag = "none" \/ body.tokens = <<>> THEN 0
    ELSE scan_patterns(1, body.tokens)

Tokens ==
    {Word(w) : w \in {"milestone", "phase", "stage", ":", "the"}}
        \cup {Number(n) : n \in 1..MaxNumber}

Bodies == {NoBody} \cup {Body(t) : t \in SeqsUpTo(Tokens, MaxTokens)}

\* records that carry both the merge fields and a discussion: the list
\* endpoint gives merged_at but no merged flag, which only the details
\* request adds
DiscussedProposals ==
    {Proposal("closed", mg, RawDate("z", 0, 0), ma, RawDate("z", 1, 0), <<>>,
              "alice") @@ [comments |-> cs, reviews |-> <<>>] :
        mg \in BOOLEAN, ma \in {NullDate, RawDate("z", 1, 0)},
        cs \in SeqsUpTo(Comments, MaxComments)}

\* ------------------------------------------------- double-precision floats
\* A finite double is kept exactly, as a sign and a natural number of
\* units of 2^-(LimbBits * FracLimbs); the natural number is the sequence
\* of its base-2^LimbBits digits, least significant first.
LimbBits  == 10
Base      == 2^LimbBits
FracLimbs == 8
Mantissa  == 53       \* significant bits of a double

Limb(a, i) == IF i \in DOMAIN a THEN a[i] ELSE 0

RECURSIVE Norm(_)
\* without leading zero digits
Norm(a) ==
    IF a = <<>> THEN <<>>
    ELSE IF a[Len(a)] = 0 THEN Norm(SubSeq(a, 1, Len(a) - 1))
    ELSE a

RECURSIVE AddFrom(_, _, _, _)
AddFrom(a, b, i, carry) ==
    IF i > Len(a) /\ i > Len(b)
    THEN IF carry = 0 THEN <<>> ELSE <<carry>>
    ELSE <<(Limb(a, i) + Limb(b, i) + carry) % Base>>
            \o AddFrom(a, b, i + 1, (Limb(a, i) + Limb(b, i) + carry) \div Base)

BigAdd(a, b) == AddFrom(a, b, 1, 0)

RECURSIVE SubFrom(_, _, _, _)
\* a - b for a >= b
SubFrom(a, b, i, borrow) ==
    IF i > Len(a) THEN <<>>
    ELSE <<((Limb(a, i) - Limb(b, i) - borrow) + Base) % Base>>
            \o SubFrom(a, b, i + 1,
                       IF Limb(a, i) - Limb(b, i) - borrow < 0 THEN 1 ELSE 0)

BigSub(a, b) == Norm(SubFrom(a, b, 1, 0))

RECURSIVE MulSmallFrom(_, _, _, _)
MulSmallFrom(a, m, i, carry) ==
    IF i > Len(a)
    THEN IF carry = 0 THEN <<>> ELSE <<carry>>
    ELSE <<(a[i] * m + carry) % Base>>
            \o MulSmallFrom(a, m, i + 1, (a[i] * m + carry) \div Base)

\* a * m for a digit m
BigMulSmall(a, m) == MulSmallFrom(a, m, 1, 0)

RECURSIVE BigMul(_, _)
BigMul(a, b) ==
    IF b = <<>> THEN <<>>
    ELSE BigAdd(BigMulSmall(a, Head(b)), <<0>> \o BigMul(a, Tail(b)))

RECURSIVE BigLessFrom(_, _, _)
BigLessFrom(a, b, i) ==
    IF i = 0 THEN FALSE
    ELSE IF a[i] /= b[i] THEN a[i] < b[i]
    ELSE BigLessFrom(a, b, i - 1)

\* a < b for a, b without leading zero digits
BigLess(a, b) ==
    IF Len(a) /= Len(b) THEN Len(a) < Len(b) ELSE BigLessFrom(a, b, Len(a))

\* number of binary digits
BitLen(a) ==
    LET n == Norm(a)
    IN  IF n = <<>> THEN 0
        ELSE ((Len(n) - 1) * LimbBits)
                + CHOOSE k \in 1..LimbBits : 2^(k - 1) <= n[Len(n)] /\ n[Len(n)] < 2^k

\* binary digit i, counted from 0
Bit(a, i) == (Limb(a, (i \div LimbBits) + 1) \div (2^(i % LimbBits))) % 2

\* a \div 2^d
ShiftRight(a, d) ==
    LET skip == d \div LimbBits
        bits == d % LimbBits
    IN  [j \in 1..(IF Len(a) > skip THEN Len(a) - skip ELSE 0) |->
            (Limb(a, j + skip) \div (2^bits))
              + ((Limb(a, j + skip + 1) % (2^bits)) * (2^(LimbBits - bits)))]

\* a * 2^d
ShiftLeft(a, d) ==
    [j \in 1..(d \div LimbBits) |-> 0] \o BigMulSmall(a, 2^(d % LimbBits))

\* the nearest number of at most 53 significant bits, ties to even
RoundNearestEven(a) ==
    LET n == BitLen(a)
        d == n - Mantissa
        q == ShiftRight(a, d)
        up == /\ Bit(a, d - 1) = 1
              /\ \/ Bit(a, d) = 1
                 \/ \E i \in 0..(d - 2) : Bit(a, i) = 1
    IN  IF n <= Mantissa THEN Norm(a)
        ELSE Norm(ShiftLeft(IF up THEN BigAdd(q, <<1>>) ELSE q, d))

Float(neg, mag) == [neg |-> neg /\ mag /= <<>>, mag |-> mag]

\* x + y
FAdd(x, y) ==
    IF x.neg = y.neg THEN Float(x.neg, RoundNearestEven(BigAdd(x.mag, y.mag)))
    ELSE IF BigLess(x.mag, y.mag)
         THEN Float(y.neg, RoundNearestEven(BigSub(y.mag, x.mag)))
    ELSE Float(x.neg, RoundNearestEven(BigSub(x.mag, y.mag)))

\* x - y
FSub(x, y) == FAdd(x, Float(~y.neg, y.mag))

\* x * y; the product of two units is rounded, then brought back to units
FMul(x, y) ==
    Float(x.neg /= y.neg,
          LET r == RoundNearestEven(BigMul(x.mag, y.mag))
          IN  SubSeq(r, FracLimbs + 1, Len(r)))

RECURSIVE Quotient(_, _, _)
\* the digits of r / q below the point, most significant first, the last
\* one made odd when the division leaves a remainder
Quotient(r, q, k) ==
    IF k = 0 THEN <<>>
    ELSE IF k = 1
         THEN <<IF (r * Base) % q = 0 THEN (r * Base) \div q
                ELSE (2 * ((r * Base) \div (2 * q))) + 1>>
    ELSE <<(r * Base) \div q>> \o Quotient((r * Base) % q, q, k - 1)

Reverse(s) == [i \in 1..Len(s) |-> s[Len(s) + 1 - i]]

\* the double nearest to p / q, for naturals p < Base * q: the value of the
\* literal p/q and of the true division of the ints p and q
FDiv(p, q) ==
    Float(FALSE,
          LET digits == Reverse(<<p \div q>> \o Quotient(p % q, q, FracLimbs + 2))
              r      == RoundNearestEven(digits)
          IN  SubSeq(r, 3, Len(r)))

FLess(x, y) ==
    IF x.neg /= y.neg THEN x.neg
    ELSE IF x.neg THEN BigLess(y.mag, x.mag)
    ELSE BigLess(x.mag, y.mag)

FMin(x, y) == IF FLess(y, x) THEN y ELSE x

\* ------------------------------------------------------------ ai_evaluator
Zero == FDiv(0, 1)
One  == FDiv(1, 1)

\* x >= y, x > y
FGeq(x, y)     == ~FLess(x, y)
FGreater(x, y) == FLess(y, x)

\* a value that is a number or None
Num(n)    == [kind |-> "num", val |-> n]
NoneValue == [kind |-> "none", val |-> 0]

\* a description: None, or a text made of the words of a set, one per
\* line, followed by filler characters that match none of the patterns
Text(words, filler) == [kind |-> "str", words |-> words, filler |-> filler]
NoneText            == [kind |-> "none", words |-> {}, filler |-> 0]

RECURSIVE Characters(_)
Characters(words) ==
    IF words = {} THEN 0
    ELSE LET w == CHOOSE v \in words : TRUE
         IN  Len(w) + 1 + Characters(words \ {w})

\* len(description)
len(description) == Characters(description.words) + description.filler

\* the record handed to analyze_proposal_content; the title by its length
EvalProposal(title, description, milestones, bounty_amount) ==
    [title |-> title, description |-> description, milestones |-> milestones,
     bounty_amount |-> bounty_amount]

\* the float literals of the source
f0_1 == FDiv(1, 10)
f0_10 == FDiv(10, 100)
f0_15 == FDiv(15, 100)
f0_2 == FDiv(2, 10)
f0_20 == FDiv(20, 100)
f0_25 == FDiv(25, 100)
f0_3 == FDiv(3, 10)
f0_30 == FDiv(30, 100)
f0_4 == FDiv(4, 10)
f0_5 == FDiv(5, 10)
f0_50 == FDiv(50, 100)
f0_6 == FDiv(6, 10)
f0_7 == FDiv(7, 10)
f0_70 == FDiv(70, 100)
f0_8 == FDiv(8, 10)
f0_85 == FDiv(85, 100)
\* the table with the weight of clarity raised, so that the weights exceed 1
evaluation_criteria_Heavy ==
    [completeness |-> [weight |-> f0_25],
     clarity      |-> [weight |-> f0_30],
     feasibility  |-> [weight |-> f0_25],
     impact       |-> [weight |-> f0_20],
     milestones   |-> [weight |-> f0_10]]

evaluation_criteria ==
    [completeness |-> [weight |-> f0_25],
     clarity      |-> [weight |-> f0_20],
     feasibility  |-> [weight |-> f0_25],
     impact       |-> [weight |-> f0_20],
     milestones   |-> [weight |-> f0_10]]

\* the keys of criteria_scores in the order they are inserted
Criteria == <<"completeness", "clarity", "feasibility", "impact", "milestones">>

\* how many of the keys occur in the description
Found(description, keys) == Cardinality(description.words \cap keys)

key_sections == {"objective", "deliverables", "timeline", "budget", "team"}
tech_terms ==
    {"substrate", "polkadot", "parachain", "runtime", "pallet", "ink", "wasm"}
tech_approach_indicators == {"implementation", "architecture", "design", "approach"}
ecosystem_keywords ==
    {"ecosystem", "community", "developer", "adoption", "integration"}
innovation_indicators == {"novel", "innovative", "new", "first", "unique"}

\* words matched by the regular expressions
Headers     == {"## "}
Lists       == {"- "}
\* "[code]" stands for a span between backquotes
Code        == {"[code]"}
Durations   == {"3 weeks", "5 days"}
TeamWords   == {"team", "developer", "contributor"}
OpenSource  == {"open source", "github", "license"}
Docs        == {"documentation", "tutorial", "guide", "example"}
Phases      == {"milestone", "phase", "stage"}
WeeksMonths == {"3 weeks"}

\* score += increment, under a condition
AddWhen(condition, score, increment) ==
    IF condition THEN FAdd(score, increment) ELSE score

evaluate_completeness(title, description, milestones) ==
    LET s1 == AddWhen(title > 10, Zero, f0_2)
        s2 == AddWhen(description.kind = "str" /\ len(description) > 200, s1,
                      IF len(description) > 500 THEN f0_3 ELSE f0_2)
        s3 == FAdd(s2, FMul(FDiv(Found(description, key_sections),
                                 Cardinality(key_sections)),
                            f0_3))
        s4 == AddWhen(milestones.val > 0, s3, f0_2)
    IN  FMin(s4, One)

evaluate_clarity(description) ==
    IF description.kind = "none" \/ len(description) = 0 THEN Zero
    ELSE LET s1 == AddWhen(Found(description, Headers) > 0, Zero, f0_3)
             s2 == AddWhen(Found(description, Lists) > 0, s1, f0_2)
             s3 == FAdd(s2, FMin(FDiv(Found(description, tech_terms),
                                      Cardinality(tech_terms)),
                                 f0_3))
             s4 == AddWhen(Found(description, Code) > 0, s3, f0_2)
         IN  FMin(s4, One)

evaluate_feasibility(description, bounty_amount) ==
    LET s1 == AddWhen(Found(description, Durations) > 0, Zero, f0_3)
        s2 == AddWhen(Found(description, TeamWords) > 0, s1, f0_2)
        s3 == AddWhen(Found(description, tech_approach_indicators) > 0, s2, f0_2)
        s4 == AddWhen(bounty_amount > 0, s3,
                      IF bounty_amount < 50000 THEN f0_3
                      ELSE IF bounty_amount < 100000 THEN f0_2
                      ELSE f0_1)
    IN  FMin(s4, One)

evaluate_impact(description) ==
    LET s1 == FAdd(Zero, FMin(FDiv(Found(description, ecosystem_keywords),
                                   Cardinality(ecosystem_keywords)),
                              f0_3))
        s2 == FAdd(s1, FMin(FDiv(Found(description, innovation_indicators),
                                 Cardinality(innovation_indicators)),
                            f0_3))
        s3 == AddWhen(Found(description, OpenSource) > 0, s2, f0_2)
        s4 == AddWhen(Found(description, Docs) > 0, s3, f0_2)
    IN  FMin(s4, One)

evaluate_milestones(milestones, description) ==
    LET s1 == AddWhen(milestones.val >= 1, Zero,
                      IF milestones.val >= 3 THEN f0_4 ELSE f0_2)
        s2 == AddWhen(Found(description, Phases) > 0, s1, f0_3)
        s3 == AddWhen(Found(description, WeeksMonths) > 0, s2, f0_3)
    IN  FMin(s3, One)

RECURSIVE naive_sum(_, _)
\* sum() of CPython up to 3.11: the terms added from left to right
naive_sum(total, terms) ==
    IF terms = <<>> THEN total
    ELSE naive_sum(FAdd(total, Head(terms)), Tail(terms))

Abs(x) == Float(FALSE, x.mag)

\* the rounding error of hi + x = t
Lost(hi, x, t) ==
    IF FGeq(Abs(hi), Abs(x)) THEN FAdd(FSub(hi, t), x)
    ELSE FAdd(FSub(x, t), hi)

RECURSIVE compensated_sum(_, _, _)
\* sum() of CPython from 3.12 on: the rounding error of every addition
\* is gathered in lo and added at the end
compensated_sum(hi, lo, terms) ==
    IF terms = <<>> THEN IF lo.mag /= <<>> THEN FAdd(hi, lo) ELSE hi
    ELSE compensated_sum(FAdd(hi, Head(terms)),
                         FAdd(lo, Lost(hi, Head(terms), FAdd(hi, Head(terms)))),
                         Tail(terms))

SumModes == {"naive", "compensated"}

\* sum(terms) as the interpreter at hand computes it
sum(terms, mode) ==
    IF mode = "naive" THEN naive_sum(Zero, terms)
    ELSE compensated_sum(Zero, Zero, terms)
\* the sum without the last criterion
overall_score_FourTerms(criteria_scores, mode) ==
    sum([i \in 1..(Len(Criteria) - 1) |->
            FMul(criteria_scores[Criteria[i]],
                 evaluation_criteria[Criteria[i]].weight)],
        mode)

\* sum(score * weight for criteria, score in criteria_scores.items())
overall_score(criteria_scores, mode) ==
    sum([i \in DOMAIN Criteria |->
            FMul(criteria_scores[Criteria[i]],
                 evaluation_criteria[Criteria[i]].weight)],
        mode)

identify_strengths(criteria_scores) ==
    SelectSeq(Criteria, LAMBDA c : FGreater(criteria_scores[c], f0_7))

identify_weaknesses(criteria_scores) ==
    SelectSeq(Criteria, LAMBDA c : FLess(criteria_scores[c], f0_5))

generate_recommendations(criteria_scores) ==
    SelectSeq(Criteria, LAMBDA c : FLess(criteria_scores[c], f0_7))
\* the thresholds taken as exclusive
determine_risk_level_Exclusive(score, bounty_amount) ==
    IF FGreater(score, f0_8) THEN "LOW"
    ELSE IF FGreater(score, f0_6) THEN "MEDIUM"
    ELSE IF FGreater(score, f0_4) THEN "HIGH"
    ELSE "VERY_HIGH"

determine_risk_level(score, bounty_amount) ==
    IF FGeq(score, f0_8) THEN "LOW"
    ELSE IF FGeq(score, f0_6) THEN "MEDIUM"
    ELSE IF FGeq(score, f0_4) THEN "HIGH"
    ELSE "VERY_HIGH"

estimate_approval_probability(score) ==
    IF FGeq(score, f0_8) THEN f0_85
    ELSE IF FGeq(score, f0_7) THEN f0_70
    ELSE IF FGeq(score, f0_6) THEN f0_50
    ELSE IF FGeq(score, f0_5) THEN f0_30
    ELSE f0_15

\* AI Recommendation with the rejection bound taken as inclusive
ai_recommendation_Inclusive(evaluation_) ==
    IF FGreater(evaluation_.estimated_approval_probability, f0_6) THEN "APPROVE"
    ELSE IF ~FGreater(evaluation_.estimated_approval_probability, f0_3) THEN "REJECT"
    ELSE "REVIEW_FURTHER"

\* the last line of generate_curator_report
ai_recommendation(evaluation_) ==
    IF FGreater(evaluation_.estimated_approval_probability, f0_6) THEN "APPROVE"
    ELSE IF FLess(evaluation_.estimated_approval_probability, f0_3) THEN "REJECT"
    ELSE "REVIEW_FURTHER"

NoEvaluation == [criteria_scores |-> <<>>]

bounty_amount_of(p) ==
    IF p.bounty_amount.kind = "none" THEN 0 ELSE p.bounty_amount.val

\* the criterion scores; proposal.get('bounty_amount', 0) or 0 turns a
\* missing bounty into 0
criteria_scores_of(p) ==
    [completeness |-> evaluate_completeness(p.title, p.description, p.milestones),
     clarity      |-> evaluate_clarity(p.description),
     feasibility  |-> evaluate_feasibility(p.description, bounty_amount_of(p)),
     impact       |-> evaluate_impact(p.description),
     milestones   |-> evaluate_milestones(p.milestones, p.description)]

\* the evaluation dict filled from the scores
Judge(criteria_scores, overall, bounty_amount) ==
    [overall_score   |-> overall,
     criteria_scores |-> criteria_scores,
     strengths       |-> identify_strengths(criteria_scores),
     weaknesses      |-> identify_weaknesses(criteria_scores),
     recommendations |-> generate_recommendations(criteria_scores),
     risk_level      |-> determine_risk_level(overall, bounty_amount),
     estimated_approval_probability |->
         estimate_approval_probability(overall)]

Weigh(criteria_scores, mode, bounty_amount) ==
    Judge(criteria_scores, overall_score(criteria_scores, mode), bounty_amount)

Evaluate(p, mode) == Weigh(criteria_scores_of(p), mode, bounty_amount_of(p))

\* description.lower() fails on None in _evaluate_completeness, and
\* milestones > 0 fails on None after it
analyze_proposal_content(p, mode) ==
    IF p.description.kind = "none"
    THEN [exc |-> RaiseAttributeError, evaluation |-> NoEvaluation]
    ELSE IF p.milestones.kind = "none"
    THEN [exc |-> RaiseTypeError, evaluation |-> NoEvaluation]
    ELSE [exc |-> "", evaluation |-> Evaluate(p, mode)]

\* ------------------------------------------------------------ github_client
\* What the remote does with one request: it answers with a JSON list
\* ("ok"), the request fails with a RequestException ("failed": no
\* connection, an HTTP error status), or it answers with something the
\* client cannot read ("invalid": a rate-limit header that is no integer, a
\* body that is no JSON), which raises a ValueError.
RaiseValueError == "raise ValueError"

Ok(count) == [tag |-> "ok", count |-> count]
Failed    == [tag |-> "failed", count |-> 0]
Invalid   == [tag |-> "invalid", count |-> 0]

PullRequest(n) == [number |-> n]

\* the remote's answer to the request for a page: past the end of what it
\* holds the remote answers with an empty list
Response(pages, k) ==
    IF k \in DOMAIN pages
    THEN [tag  |-> pages[k].tag,
          data |-> [j \in 1..pages[k].count |->
                        PullRequest((k - 1) * PerPage + j)]]
    ELSE [tag |-> "ok", data |-> <<>>]

\* _make_request with a request that fails raising as well
make_request_Raising(response) ==
    IF response.tag = "ok" THEN [exc |-> "", data |-> response.data]
    ELSE [exc |-> RaiseValueError, data |-> <<>>]

\* _make_request: the decoded body; {} for a failed request; only what is
\* no RequestException escapes
make_request(response) ==
    IF response.tag = "failed" THEN [exc |-> "", data |-> <<>>]
    ELSE IF response.tag = "invalid" THEN [exc |-> RaiseValueError, data |-> <<>>]
    ELSE [exc |-> "", data |-> response.data]

\* one turn of the loop of get_pull_requests, given what _make_request
\* returned
Turn(r, k, prs) ==
    IF r.exc /= "" THEN [pc |-> "raised", page |-> k, all_prs |-> <<>>]
    ELSE IF r.data = <<>> THEN [pc |-> "returned", page |-> k, all_prs |-> prs]
    ELSE IF Len(r.data) < PerPage
         THEN [pc |-> "returned", page |-> k, all_prs |-> prs \o r.data]
    ELSE [pc |-> "loop", page |-> k + 1, all_prs |-> prs \o r.data]

request_page(pages, k, prs) == Turn(make_request(Response(pages, k)), k, prs)

\* get_pull_requests from page k on: turn after turn until one leaves the
\* loop
RECURSIVE get_pull_requests(_, _, _)
Resume(turn, pages) ==
    IF turn.pc = "loop" THEN get_pull_requests(pages, turn.page, turn.all_prs)
    ELSE turn

get_pull_requests(pages, k, prs) == Resume(request_page(pages, k, prs), pages)

\* the requests enrich_proposal_data makes for one proposal
Requests == {"details", "comments", "reviews"}

\* enrich_proposal_data giving up on a request that failed
enrich_proposal_data_Strict(proposal_, replies) ==
    IF \E r \in Requests : replies[r] /= "ok"
    THEN [exc |-> RaiseValueError, proposal |-> proposal_]
    ELSE [exc |-> "",
          proposal |-> [details |-> TRUE, comments |-> "fetched",
                        reviews |-> "fetched"] @@ proposal_]

\* enrich_proposal_data: the details update the proposal when the request
\* gave any; comments and reviews are set to what was fetched, or to []
enrich_proposal_data(proposal_, replies) ==
    IF \E r \in Requests : make_request([tag |-> replies[r], data |-> <<>>]).exc /= ""
    THEN [exc |-> RaiseValueError, proposal |-> proposal_]
    ELSE [exc |-> "",
          proposal |->
              [details  |-> replies["details"] = "ok",
               comments |-> IF replies["comments"] = "ok" THEN "fetched" ELSE "[]",
               reviews  |-> IF replies["reviews"] = "ok" THEN "fetched" ELSE "[]"]
                  @@ proposal_]

\* the repositories of the configuration, in the order the dict holds them
GRANT_REPOSITORIES == <<"w3f_grants", "polkadot_fast_grants">>

\* how the remote treats the enrichment of one repository: every request
\* answered, or one request of the proposal at one position not
NoFault == [at |-> 0, request |-> "", tag |-> "ok"]
Fault(i, r, t) == [at |-> i, request |-> r, tag |-> t]

RepliesFor(fault, i) ==
    [r \in Requests |-> IF fault.at = i /\ fault.request = r THEN fault.tag ELSE "ok"]

\* pr['repository'] = repo_key
Tagged(pr, repo_key) == pr @@ [repository |-> repo_key]

\* the body of the try block once the pull requests are there
enrich_all(repo_key, prs, fault) ==
    IF \E i \in DOMAIN prs :
          enrich_proposal_data(Tagged(prs[i], repo_key), RepliesFor(fault, i)).exc /= ""
    THEN <<>>
    ELSE [i \in DOMAIN prs |->
            enrich_proposal_data(Tagged(prs[i], repo_key), RepliesFor(fault, i)).proposal]

Enrich(pulls, repo_key, fault) ==
    IF pulls.pc = "raised" THEN <<>> ELSE enrich_all(repo_key, pulls.all_prs, fault)

\* one turn of the loop of fetch_all_grant_proposals: the list stored under
\* the repository's key
fetch_repository(repo_key, remote) ==
    Enrich(get_pull_requests(remote.script, 1, <<>>), repo_key, remote.fault)

\* ------------------------------------------- database, cloud_storage
\* the two backends behind GrantDatabase
Backends == {"sqlite", "session_state"}

\* a stored proposal
StoredRow(i) == [id |-> i, repository |-> "grants"]

\* the proposals 1..n in order
RowsUpTo(n) == [i \in 1..n |-> StoredRow(i)]

\* what save_proposals is handed: a dict of lists, or a DataFrame
ProposalsData(form, n) == [form |-> form, rows |-> RowsUpTo(n)]

NoProposalsData == [form |-> "none", rows |-> <<>>]

\* metric values: a number or a dict, told apart by isinstance
IntValue(n)   == [kind |-> "int", val |-> n]
FloatValue(n) == [kind |-> "float", val |-> n]
DictValue(n)  == [kind |-> "dict", val |-> n]
StrValue(v)   == [kind |-> "str", val |-> v.val]

\* str(metric_value) and json.dumps(metric_value)
str(v)   == [form |-> "str", of |-> v]
dumps(v) == [form |-> "json", of |-> v]

\* json.loads, with the except branch that keeps the text as a string
loads(text) ==
    IF text.form = "json" THEN text.of
    ELSE IF text.of.kind \in {"int", "float"} THEN text.of
    ELSE StrValue(text.of)

\* the metric_value column written for a value
MetricText(v) == IF v.kind = "dict" THEN dumps(v) ELSE str(v)

\* DataFrame.items() yields columns, and a cell has no get(): the
\* except handler calls proposal.get again and the error leaves the function
IsFrameWithRows(proposals_data) ==
    proposals_data.form = "frame" /\ Len(proposals_data.rows) > 0

\* _save_proposals_sqlite treating a DataFrame like a dict of lists
save_proposals_sqlite_AnyForm(rows, proposals_data) ==
    [exc |-> "", rows |-> proposals_data.rows]

\* _save_proposals_sqlite: the rows of the proposals table afterwards; an
\* exception rolls the DELETE back
save_proposals_sqlite(rows, proposals_data) ==
    IF IsFrameWithRows(proposals_data)
    THEN [exc |-> RaiseAttributeError, rows |-> rows]
    ELSE [exc |-> "", rows |-> IF proposals_data.form = "dict"
                               THEN proposals_data.rows ELSE <<>>]

\* _save_metrics_sqlite: INSERT OR REPLACE, one row per metric name
save_metrics_sqlite(rows, m) ==
    [n \in DOMAIN m |-> MetricText(m[n])] @@ rows

\* _load_metrics_sqlite
load_metrics_sqlite(rows) == [n \in DOMAIN rows |-> loads(rows[n])]

\* the keys of the session state
StorageKeys ==
    {"proposals", "proposals_json", "metadata", "metrics", "metrics_json"}

\* CloudStorage.save_proposals that keeps what was stored and adds to it
cloud_save_proposals_Append(state, proposals_data) ==
    [proposals |-> (IF "proposals" \in DOMAIN state THEN state.proposals ELSE <<>>)
                       \o proposals_data.rows,
     proposals_json |-> dumps(proposals_data.rows),
     metadata |-> [count |-> Len(proposals_data.rows)]] @@ state

\* CloudStorage.save_proposals: both forms end as a list of records
cloud_save_proposals(state, proposals_data) ==
    [proposals |-> proposals_data.rows,
     proposals_json |-> dumps(proposals_data.rows),
     metadata |-> [count |-> Len(proposals_data.rows)]] @@ state

\* CloudStorage.save_metrics
cloud_save_metrics(state, m) ==
    [metrics |-> m, metrics_json |-> dumps(m)] @@ state

\* CloudStorage.clear_storage
clear_storage(state) ==
    [k \in DOMAIN state \ StorageKeys |-> state[k]]

\* CloudStorage.load_proposals: the rows of the returned DataFrame
cloud_load_proposals(state) ==
    IF "proposals" \in DOMAIN state THEN state.proposals
    ELSE IF "proposals_json" \in DOMAIN state THEN state.proposals_json.of
    ELSE <<>>

\* CloudStorage.load_metrics
cloud_load_metrics(state) ==
    IF "metrics" \in DOMAIN state THEN state.metrics
    ELSE IF "metrics_json" \in DOMAIN state THEN state.metrics_json.of
    ELSE EmptyDict

\* CloudStorage.has_data
cloud_has_data(state) ==
    "proposals" \in DOMAIN state /\ Len(state.proposals) > 0

\* CloudStorage.get_storage_info
get_storage_info(state) ==
    [proposals_count |-> IF "proposals" \in DOMAIN state
                         THEN Len(state.proposals) ELSE 0,
     metrics_count   |-> IF "metrics" \in DOMAIN state
                         THEN Cardinality(DOMAIN state.metrics) ELSE 0]

\* GrantDatabase.load_proposals, load_metrics and has_data on either backend
load_proposals == 
    IF backend = "sqlite" THEN proposals_table
    ELSE cloud_load_proposals(session_state)

load_metrics ==
    IF backend = "sqlite" THEN load_metrics_sqlite(metrics_table)
    ELSE cloud_load_metrics(session_state)

has_data ==
    IF backend = "sqlite" THEN Len(proposals_table) > 0
    ELSE cloud_has_data(session_state)

\* ------------------------------------------------ single calls (Spec)
CallInit ==
    /\ op = "idle"
    /\ proposal = NoProposal
    /\ category = "-"
    /\ approval_time_days = NoTime
    /\ processed = NoProcessed

BatchIdle ==
    /\ proposals = <<>>
    /\ pc = "idle"
    /\ idx = 0
    /\ all_processed = <<>>
    /\ errors = 0
    /\ df = <<>>
    /\ df_columns = {}

MetricIdle ==
    /\ table = <<>>
    /\ metrics = EmptyDict
    /\ curator_analysis = EmptyDict

ExtractIdle ==
    /\ curators = <<>>
    /\ rejection_reason = NoneReason

NoRiskArgs == [score |-> <<0, 1>>, bounty_amount |-> 0]

EvalIdle ==
    /\ evaluation = [exc |-> "", evaluation |-> NoEvaluation]
    /\ sum_mode = ""
    /\ risk_args = NoRiskArgs
    /\ risk_level = ""
    /\ report = ""

\* what storage holds before anything is saved
StoreIdle ==
    /\ backend = "sqlite"
    /\ session_state = EmptyDict
    /\ proposals_table = <<>>
    /\ metrics_table = EmptyDict
    /\ saved_proposals = NoProposalsData
    /\ saved_metrics = EmptyDict
    /\ save_result = ""

ScanIdle ==
    /\ milestone_text = NoBody
    /\ milestones_found = 0

FetchIdle ==
    /\ script = <<>>
    /\ page = 0
    /\ all_prs = <<>>
    /\ requested = <<>>
    /\ fetch_pc = "idle"
    /\ remotes = EmptyDict
    /\ all_proposals = EmptyDict

OuterIdle == StoreIdle /\ ScanIdle /\ FetchIdle

AuxIdle == MetricIdle /\ ExtractIdle /\ EvalIdle /\ OuterIdle

Init ==
    /\ now = StartNow
    /\ CallInit
    /\ BatchIdle
    /\ AuxIdle

\* time passes between two calls
Tick ==
    /\ op = "idle"
    /\ now < MaxNow
    /\ now' = now + 1
    /\ UNCHANGED <<callVars, batchVars, auxVars>>

DetermineCategory ==
    /\ op = "idle"
    /\ \E p \in CategoryProposals \cup {ScenarioProposal} :
          /\ proposal' = p
          /\ category' = determine_category(p, now)
    /\ op' = "determine_category"
    /\ UNCHANGED <<now, approval_time_days, processed, batchVars, auxVars>>

CalculateApprovalTime ==
    /\ op = "idle"
    /\ \E p \in TimingProposals \cup {ScenarioProposal} :
          /\ proposal' = p
          /\ approval_time_days' = calculate_approval_time(p)
    /\ op' = "calculate_approval_time"
    /\ UNCHANGED <<now, category, processed, batchVars, auxVars>>

ProcessProposal ==
    /\ op = "idle"
    /\ \E p \in BatchProposals \cup {ScenarioProposal} :
          /\ proposal' = p
          /\ processed' = process_proposal(p, now)
    /\ op' = "process_proposal"
    /\ UNCHANGED <<now, category, approval_time_days, batchVars, auxVars>>

\* the caller takes the outcome
Return ==
    /\ op /= "idle"
    /\ op' = "idle"
    /\ proposal' = NoProposal
    /\ category' = "-"
    /\ approval_time_days' = NoTime
    /\ processed' = NoProcessed
    /\ UNCHANGED <<now, batchVars, auxVars>>

Next ==
    \/ Tick
    \/ DetermineCategory
    \/ CalculateApprovalTime
    \/ ProcessProposal
    \/ Return

Spec == Init /\ [][Next]_vars

\* ------------------------------------- process_all_proposals (SpecBatch)
DateColumns(row) == <<row.created_at, row.closed_at, row.merged_at>>

\* pd.to_datetime over one date column of the table: an unparsable string
\* raises; a column mixing naive and timezone-aware strings raises or not
\* with the pandas version; anything else converts
ToDatetime(col) ==
    IF \E i \in 1..Len(col) : col[i].fmt = "garbage" THEN {"raise"}
    ELSE IF /\ \E i \in 1..Len(col) : col[i].fmt = "naive"
            /\ \E i \in 1..Len(col) : col[i].fmt \in {"z", "offset"}
         THEN {"ok", "raise"}
    ELSE {"ok"}

Column(rows, c) == [i \in 1..Len(rows) |-> DateColumns(rows[i])[c]]

\* the outcomes of the date conversion of the whole table; an empty table
\* has no columns to convert
ConvertDates(rows) ==
    IF rows = <<>> THEN {"ok"}
    ELSE IF \E c \in 1..3 : ToDatetime(Column(rows, c)) = {"raise"} THEN {"raise"}
    ELSE IF \E c \in 1..3 : "raise" \in ToDatetime(Column(rows, c)) THEN {"ok", "raise"}
    ELSE {"ok"}

\* the keys of the dict process_proposal builds: the columns of a table
\* built from at least one row
RowKeys ==
    {"id", "number", "title", "description", "author", "repository",
     "repository_info", "state", "merged", "created_at", "updated_at",
     "closed_at", "merged_at", "milestones", "curators", "category",
     "approval_time_days", "rejection_reason", "bounty_amount", "labels",
     "comments_count", "reviews_count", "additions", "deletions",
     "changed_files"}

\* the columns of the table returned in place of an empty one
EmptyTableColumns ==
    {"id", "number", "title", "description", "author", "repository",
     "repository_info", "state", "merged", "created_at", "updated_at",
     "closed_at", "merged_at", "milestones", "curators", "category",
     "approval_time_days", "rejection_reason", "bounty_amount", "labels",
     "comments_count", "reviews_count", "additions", "deletions",
     "changed_files"}

\* variant: the empty table is returned as built, without columns
ReturnedColumns_AsBuilt(rows) == IF rows = <<>> THEN {} ELSE RowKeys

\* return df if not df.empty else pd.DataFrame(columns=[...])
ReturnedColumns(rows) == IF rows = <<>> THEN EmptyTableColumns ELSE RowKeys

InitBatch ==
    /\ now = StartNow
    /\ CallInit
    /\ proposals \in Batches
    /\ pc = "loop"
    /\ idx = 0
    /\ all_processed = <<>>
    /\ errors = 0
    /\ df = <<>>
    /\ df_columns = {}
    /\ AuxIdle

\* time passes while the batch is processed
BatchTick ==
    /\ pc = "loop"
    /\ now < MaxNow
    /\ now' = now + 1
    /\ UNCHANGED <<callVars, batchVars, auxVars>>

\* one iteration of the inner loop: process_proposal inside try/except
ProcessNext ==
    /\ pc = "loop"
    /\ idx < Len(Flatten(proposals))
    /\ LET r == process_proposal(Flatten(proposals)[idx + 1], now)
       IN  IF r.exc = ""
           THEN /\ all_processed' = Append(all_processed, r.row)
                /\ errors' = errors
           ELSE /\ all_processed' = all_processed
                /\ errors' = errors + 1
    /\ idx' = idx + 1
    /\ UNCHANGED <<now, callVars, proposals, pc, df, df_columns, auxVars>>

\* after the loops: build the table, convert the date columns, return
Convert ==
    /\ pc = "loop"
    /\ idx = Len(Flatten(proposals))
    /\ \E outcome \in ConvertDates(all_processed) :
          IF outcome = "ok"
          THEN /\ pc' = "returned"
               /\ df' = all_processed
               /\ df_columns' = ReturnedColumns(all_processed)
          ELSE /\ pc' = "raised"
               /\ UNCHANGED <<df, df_columns>>
    /\ UNCHANGED <<now, callVars, proposals, idx, all_processed, errors, auxVars>>

NextBatch ==
    \/ BatchTick
    \/ ProcessNext
    \/ Convert

SpecBatch == InitBatch /\ [][NextBatch]_vars

\* --------------------------------------------- aggregations (SpecMetrics)
InitMetrics ==
    /\ now = StartNow
    /\ CallInit
    /\ BatchIdle
    /\ table \in Tables
    /\ metrics = EmptyDict
    /\ curator_analysis = EmptyDict
    /\ ExtractIdle
    /\ EvalIdle
    /\ OuterIdle

\* on a table as process_all_proposals returns it (curators are lists)
CalculatePerformanceMetrics ==
    /\ op = "idle"
    /\ \A i \in DOMAIN table : table[i].curators.kind = "list"
    /\ metrics' = calculate_performance_metrics(table)
    /\ op' = "calculate_performance_metrics"
    /\ UNCHANGED <<now, proposal, category, approval_time_days, processed,
                   batchVars, table, curator_analysis, extractVars, evalVars, outerVars>>

\* on a table as built or as reloaded from storage
ShowCuratorAnalysis ==
    /\ op = "idle"
    /\ curator_analysis' = show_curator_analysis(table)
    /\ op' = "show_curator_analysis"
    /\ UNCHANGED <<now, proposal, category, approval_time_days, processed,
                   batchVars, table, metrics, extractVars, evalVars, outerVars>>

MetricsReturn ==
    /\ op /= "idle"
    /\ op' = "idle"
    /\ metrics' = EmptyDict
    /\ curator_analysis' = EmptyDict
    /\ UNCHANGED <<now, proposal, category, approval_time_days, processed,
                   batchVars, table, extractVars, evalVars, outerVars>>

NextMetrics ==
    \/ CalculatePerformanceMetrics
    \/ ShowCuratorAnalysis
    \/ MetricsReturn

SpecMetrics == InitMetrics /\ [][NextMetrics]_vars

\* ------------------------------------------- extractions (SpecExtract)
ExtractCurators ==
    /\ op = "idle"
    /\ \E p \in Discussions :
          /\ proposal' = p
          /\ curators' \in extract_curators(p)
    /\ op' = "extract_curators"
    /\ UNCHANGED <<now, category, approval_time_days, processed, batchVars,
                   metricVars, evalVars, outerVars, rejection_reason>>

ExtractRejectionReason ==
    /\ op = "idle"
    /\ \E p \in Discussions :
          /\ proposal' = p
          /\ rejection_reason' = extract_rejection_reason(p)
    /\ op' = "extract_rejection_reason"
    /\ UNCHANGED <<now, category, approval_time_days, processed, batchVars,
                   metricVars, evalVars, outerVars, curators>>

\* process_proposal on a record with a discussion: the category and the
\* rejection reason are computed from the same record
ProcessDiscussed ==
    /\ op = "idle"
    /\ \E p \in DiscussedProposals :
          /\ proposal' = p
          /\ processed' = process_proposal(p, now)
          /\ rejection_reason' = extract_rejection_reason(p)
    /\ op' = "process_proposal"
    /\ UNCHANGED <<now, category, approval_time_days, batchVars, metricVars,
                   evalVars, outerVars, curators>>

ExtractReturn ==
    /\ op /= "idle"
    /\ op' = "idle"
    /\ proposal' = NoProposal
    /\ curators' = <<>>
    /\ rejection_reason' = NoneReason
    /\ processed' = NoProcessed
    /\ UNCHANGED <<now, category, approval_time_days, batchVars,
                   metricVars, evalVars, outerVars>>

NextExtract ==
    \/ ExtractCurators
    \/ ExtractRejectionReason
    \/ ProcessDiscussed
    \/ ExtractReturn

SpecExtract == Init /\ [][NextExtract]_vars

\* --------------------------------------------------- evaluations (SpecEval)
\* every word one of the checks of the evaluator looks for
Vocabulary ==
    key_sections \cup tech_terms \cup tech_approach_indicators
    \cup ecosystem_keywords \cup innovation_indicators \cup Headers \cup Lists
    \cup Code \cup Durations \cup TeamWords \cup OpenSource \cup Docs \cup Phases

\* the sets of at most n words
RECURSIVE WordSets(_)
WordSets(n) ==
    IF n = 0 THEN {{}}
    ELSE WordSets(n - 1) \cup {W \cup {w} : W \in WordSets(n - 1), w \in Vocabulary}

\* a description that meets about half of the checks
HalfVocabulary ==
    {"objective", "deliverables", "timeline", "## ", "substrate", "polkadot",
     "3 weeks", "design", "ecosystem", "community", "novel", "github", "phase"}

\* descriptions with few of the words, with all but few of them, and with
\* half of them and few more
WordChoices ==
    WordSets(MaxWords)
    \cup {Vocabulary \ W : W \in WordSets(MaxWords)}
    \cup {HalfVocabulary \cup W : W \in WordSets(MaxWords)}

\* title length, filler length, milestones, bounty_amount
Frames ==
    {<<0, 0, Num(0), NoneValue>>,
     <<11, 600, Num(3), Num(1000)>>,
     <<11, 250, Num(1), Num(75000)>>,
     <<10, 0, Num(3), Num(100000)>>}

EvalProposals ==
    {EvalProposal(f[1], Text(W, f[2]), f[3], f[4]) : W \in WordChoices, f \in Frames}
    \cup {EvalProposal(11, NoneText, Num(3), Num(1000)),
          EvalProposal(11, Text({}, 0), NoneValue, NoneValue)}

\* scores handed to _determine_risk_level, as decimal fractions <<p, q>>
RiskScores ==
    {<<0, 1>>, <<39, 100>>, <<39999, 100000>>, <<4, 10>>, <<59999, 100000>>,
     <<6, 10>>, <<79999, 100000>>, <<8, 10>>, <<1, 1>>}

Bounties == {0, 1000, 1000000}

AnalyzeProposalContent ==
    /\ op = "idle"
    /\ \E p \in EvalProposals, mode \in SumModes :
          /\ proposal' = p
          /\ sum_mode' = mode
          /\ evaluation' = analyze_proposal_content(p, mode)
    /\ op' = "analyze_proposal_content"
    /\ UNCHANGED <<now, category, approval_time_days, processed, batchVars,
                   metricVars, extractVars, outerVars, risk_args, risk_level,
                   report>>

DetermineRiskLevel ==
    /\ op = "idle"
    /\ \E s \in RiskScores, b \in Bounties :
          /\ risk_args' = [score |-> s, bounty_amount |-> b]
          /\ risk_level' = determine_risk_level(FDiv(s[1], s[2]), b)
    /\ op' = "determine_risk_level"
    /\ UNCHANGED <<now, proposal, category, approval_time_days, processed,
                   batchVars, metricVars, extractVars, outerVars, evaluation, sum_mode,
                   report>>

EvalReturn ==
    /\ op /= "idle"
    /\ op' = "idle"
    /\ proposal' = NoProposal
    /\ evaluation' = [exc |-> "", evaluation |-> NoEvaluation]
    /\ sum_mode' = ""
    /\ risk_args' = NoRiskArgs
    /\ risk_level' = ""
    /\ report' = ""
    /\ UNCHANGED <<now, category, approval_time_days, processed, batchVars,
                   metricVars, extractVars, outerVars>>

\* the report is written for an evaluation that was returned
GenerateCuratorReport ==
    /\ op = "analyze_proposal_content"
    /\ evaluation.exc = ""
    /\ report' = ai_recommendation(evaluation.evaluation)
    /\ op' = "generate_curator_report"
    /\ UNCHANGED <<now, proposal, category, approval_time_days, processed,
                   batchVars, metricVars, extractVars, outerVars, evaluation, sum_mode,
                   risk_args, risk_level>>

NextEval ==
    \/ AnalyzeProposalContent
    \/ GenerateCuratorReport
    \/ DetermineRiskLevel
    \/ EvalReturn

SpecEval == Init /\ [][NextEval]_vars


\* ----------------------------------------------- storage (SpecStore)
\* the metrics of a run: the time statistic is there only with samples
MetricDicts ==
    {[total_proposals |-> IntValue(n), top_authors |-> DictValue(n)] : n \in 1..2}
    \cup {[total_proposals |-> IntValue(n), top_authors |-> DictValue(n),
           avg_approval_time_days |-> FloatValue(n)] : n \in 1..2}

ProposalInputs ==
    {ProposalsData(form, n) : form \in {"dict", "frame"}, n \in 0..MaxStored}

InitStore ==
    /\ now = StartNow
    /\ CallInit
    /\ BatchIdle
    /\ MetricIdle
    /\ ExtractIdle
    /\ EvalIdle
    /\ backend \in Backends
    /\ session_state = EmptyDict
    /\ proposals_table = <<>>
    /\ metrics_table = EmptyDict
    /\ saved_proposals = NoProposalsData
    /\ saved_metrics = EmptyDict
    /\ save_result = ""
    /\ ScanIdle
    /\ FetchIdle

SaveProposals ==
    /\ \E proposals_data \in ProposalInputs :
          /\ saved_proposals' = proposals_data
          /\ IF backend = "sqlite"
             THEN /\ proposals_table' =
                        save_proposals_sqlite(proposals_table, proposals_data).rows
                  /\ save_result' =
                        save_proposals_sqlite(proposals_table, proposals_data).exc
                  /\ UNCHANGED session_state
             ELSE /\ session_state' =
                        cloud_save_proposals(session_state, proposals_data)
                  /\ save_result' = ""
                  /\ UNCHANGED proposals_table
    /\ UNCHANGED <<now, callVars, batchVars, metricVars, extractVars, evalVars,
                   scanVars, fetchVars, backend, metrics_table, saved_metrics>>

SaveMetrics ==
    /\ \E m \in MetricDicts :
          /\ saved_metrics' = m
          /\ IF backend = "sqlite"
             THEN /\ metrics_table' = save_metrics_sqlite(metrics_table, m)
                  /\ UNCHANGED session_state
             ELSE /\ session_state' = cloud_save_metrics(session_state, m)
                  /\ UNCHANGED metrics_table
    /\ save_result' = ""
    /\ UNCHANGED <<now, callVars, batchVars, metricVars, extractVars, evalVars,
                   scanVars, fetchVars, backend, proposals_table, saved_proposals>>

\* GrantDatabase.clear_database
ClearDatabase ==
    /\ IF backend = "sqlite"
       THEN /\ proposals_table' = <<>>
            /\ metrics_table' = EmptyDict
            /\ UNCHANGED session_state
       ELSE /\ session_state' = clear_storage(session_state)
            /\ UNCHANGED <<proposals_table, metrics_table>>
    /\ saved_proposals' = NoProposalsData
    /\ saved_metrics' = EmptyDict
    /\ save_result' = ""
    /\ UNCHANGED <<now, callVars, batchVars, metricVars, extractVars, evalVars,
                   scanVars, fetchVars, backend>>

NextStore ==
    \/ SaveProposals
    \/ SaveMetrics
    \/ ClearDatabase

SpecStore == InitStore /\ [][NextStore]_vars

\* ------------------------------------------- get_pull_requests (SpecFetch)
ReplyKinds == {Ok(c) : c \in 0..PerPage} \cup {Failed, Invalid}

Scripts == SeqsUpTo(ReplyKinds, MaxPages)

InitFetch ==
    /\ now = StartNow
    /\ CallInit
    /\ BatchIdle
    /\ AuxIdle

\* the call: all_prs = [], page = 1
GetPullRequests ==
    /\ fetch_pc = "idle"
    /\ script' \in Scripts
    /\ page' = 1
    /\ all_prs' = <<>>
    /\ requested' = <<>>
    /\ fetch_pc' = "loop"
    /\ UNCHANGED <<now, callVars, batchVars, metricVars, extractVars, evalVars,
                   storeVars, scanVars, remotes, all_proposals>>

\* one turn of the while loop
RequestPage ==
    /\ fetch_pc = "loop"
    /\ requested' = Append(requested, page)
    /\ fetch_pc' = request_page(script, page, all_prs).pc
    /\ page' = request_page(script, page, all_prs).page
    /\ all_prs' = request_page(script, page, all_prs).all_prs
    /\ UNCHANGED <<now, callVars, batchVars, metricVars, extractVars, evalVars,
                   storeVars, scanVars, script, remotes, all_proposals>>

FetchReturn ==
    /\ fetch_pc \in {"returned", "raised"}
    /\ script' = <<>>
    /\ page' = 0
    /\ all_prs' = <<>>
    /\ requested' = <<>>
    /\ fetch_pc' = "idle"
    /\ UNCHANGED <<now, callVars, batchVars, metricVars, extractVars, evalVars,
                   storeVars, scanVars, remotes, all_proposals>>

NextFetch ==
    \/ GetPullRequests
    \/ RequestPage
    \/ FetchReturn

\* the loop is not suspended for ever: a turn that can be taken is taken
SpecFetch == InitFetch /\ [][NextFetch]_vars /\ WF_vars(RequestPage)

\* ---------------------------------- fetch_all_grant_proposals (SpecFetchAll)
RepoScripts ==
    {<<>>, <<Ok(1)>>, <<Ok(PerPage)>>, <<Failed>>, <<Invalid>>,
     <<Ok(PerPage), Ok(1)>>, <<Ok(PerPage), Failed>>, <<Ok(PerPage), Invalid>>}

Faults ==
    {NoFault} \cup {Fault(i, r, t) : i \in 1..PerPage, r \in Requests,
                                      t \in {"failed", "invalid"}}

Remotes == [script : RepoScripts, fault : Faults]

\* the call: all_proposals = {}
FetchAllGrantProposals ==
    /\ fetch_pc = "idle"
    /\ fetch_pc' = "loop"
    /\ remotes' = EmptyDict
    /\ all_proposals' = EmptyDict
    /\ UNCHANGED <<now, callVars, batchVars, metricVars, extractVars, evalVars,
                   storeVars, scanVars, script, page, all_prs, requested>>

\* one turn of the for loop: the next configured repository
FetchRepository ==
    /\ fetch_pc = "loop"
    /\ \E remote \in Remotes :
        LET repo_key == GRANT_REPOSITORIES[Cardinality(DOMAIN all_proposals) + 1]
        IN  /\ remotes' = (repo_key :> remote) @@ remotes
            /\ all_proposals' =
                  (repo_key :> fetch_repository(repo_key, remote)) @@ all_proposals
    /\ fetch_pc' = IF Cardinality(DOMAIN all_proposals) + 1 = Len(GRANT_REPOSITORIES)
                   THEN "returned" ELSE "loop"
    /\ UNCHANGED <<now, callVars, batchVars, metricVars, extractVars, evalVars,
                   storeVars, scanVars, script, page, all_prs, requested>>

FetchAllReturn ==
    /\ fetch_pc = "returned"
    /\ fetch_pc' = "idle"
    /\ remotes' = EmptyDict
    /\ all_proposals' = EmptyDict
    /\ UNCHANGED <<now, callVars, batchVars, metricVars, extractVars, evalVars,
                   storeVars, scanVars, script, page, all_prs, requested>>

NextFetchAll ==
    \/ FetchAllGrantProposals
    \/ FetchRepository
    \/ FetchAllReturn

SpecFetchAll == InitFetch /\ [][NextFetchAll]_vars

\* ------------------------------------------------- vocabulary of the claims
\* a timestamp that denotes a time (an ISO 8601 string)
Resolvable(d) == d.fmt \in {"naive", "z", "offset"}

\* its instant on the UTC time line, a timestamp without zone read as UTC
Instant(d) == d.wall - d.off

\* merged flag true, or merged_at non-null
MergeSignal(p) == p.merged \/ p.merged_at.fmt \notin {"null", "nan"}

FiveCategories == {"APPROVED", "REJECTED", "PENDING", "STALE", "UNKNOWN"}

\* open, creation resolvable and now - created greater than the threshold
OlderThanThreshold(p, clock) ==
    /\ p.state = "open"
    /\ Resolvable(p.created_at)
    /\ clock - Instant(p.created_at) > StaleDays * UnitsPerDay

\* open, creation resolvable and more than StaleDays whole days on the
\* wall clock between creation and now
WholeDaysStale(p, clock) ==
    /\ p.state = "open"
    /\ Resolvable(p.created_at)
    /\ (clock - p.created_at.wall) \div UnitsPerDay > StaleDays

\* the category named by the first label that names a known category
FirstKnownLabel(labels) ==
    LET hits == {i \in 1..Len(labels) : Upper(labels[i]) \in FiveCategories}
    IN  IF hits = {} THEN "PENDING"
        ELSE Upper(labels[CHOOSE i \in hits : \A j \in hits : i <= j])

\* the terminal timestamp: merged_at when it resolves, else closed_at
Terminal(p) ==
    IF Resolvable(p.merged_at) THEN p.merged_at ELSE p.closed_at

Classified == op = "determine_category"
Timed      == op = "calculate_approval_time"

\* --------------------------------------------------------------------- C1
\* C1 (as stated): every record that determine_category classifies is
\* APPROVED if and only if it carries a merge signal; the merge check comes
\* before every other check, staleness and labels included.
C1_ApprovedIffMergeSignal ==
    (Classified /\ category \in FiveCategories)
        => (category = "APPROVED" <=> MergeSignal(proposal))

\* C1 (amended): every record that determine_category classifies is APPROVED
\* if and only if the staleness check (open, creation resolvable, more than
\* StaleDays whole days old) does not fire and either a merge signal is
\* present or the record is open and its first label naming a known category
\* names APPROVED; the merge check comes after the staleness check and before
\* the state and label checks.
C1_ApprovedAfterStaleness ==
    (Classified /\ category \in FiveCategories)
        => (category = "APPROVED" <=>
               /\ ~WholeDaysStale(proposal, now)
               /\ \/ MergeSignal(proposal)
                  \/ /\ proposal.state = "open"
                     /\ FirstKnownLabel(proposal.labels) = "APPROVED")

\* an open, young record with a merge signal and labels is APPROVED
C1_Witness ==
    /\ Classified
    /\ category = "APPROVED"
    /\ MergeSignal(proposal)
    /\ proposal.state = "open"
    /\ Resolvable(proposal.created_at)
    /\ Len(proposal.labels) > 0

\* --------------------------------------------------------------------- C2
\* C2: an open record whose creation timestamp is resolvable and lies more
\* than StaleDays days before now is classified STALE, whatever its labels,
\* also when the excess is under one day, and for timezone-aware and naive
\* creation timestamps alike.
C2_OldOpenIsStale ==
    (Classified /\ OlderThanThreshold(proposal, now)) => category = "STALE"

\* --------------------------------------------------------------------- C3
\* C3: a record that is not stale is classified APPROVED with a merge signal,
\* else REJECTED when closed, else by its first known label or PENDING when
\* open, else UNKNOWN.
C3_FallThroughRules ==
    (Classified /\ ~OlderThanThreshold(proposal, now)) =>
        category = IF MergeSignal(proposal) THEN "APPROVED"
                   ELSE IF proposal.state = "closed" THEN "REJECTED"
                   ELSE IF proposal.state = "open"
                        THEN FirstKnownLabel(proposal.labels)
                   ELSE "UNKNOWN"

\* --------------------------------------------------------------------- C4
\* C4: determine_category never raises, returns one of the five categories,
\* and returns UNKNOWN for a record without merge signal whose state is
\* neither open nor closed (a missing state included).
C4_TotalFiveValued ==
    Classified =>
        /\ category \in FiveCategories
        /\ (~MergeSignal(proposal) /\ proposal.state \notin {"open", "closed"})
              => category = "UNKNOWN"

\* --------------------------------------------------------------------- C7
\* C7: when created_at and merged_at both resolve, calculate_approval_time
\* returns merged_at - created_at in days whatever closed_at is; closed_at is
\* used only when merged_at does not resolve; the scenario record is
\* processed to APPROVED with 9.0 days.
C7_MergedPreferred ==
    /\ (Timed /\ Resolvable(proposal.created_at) /\ Resolvable(proposal.merged_at))
          => approval_time_days =
                FloatTime(Instant(proposal.merged_at) - Instant(proposal.created_at))
    /\ (op = "process_proposal" /\ proposal = ScenarioProposal)
          => /\ processed.exc = ""
             /\ processed.row.category = "APPROVED"
             /\ processed.row.approval_time_days = FloatTime(9 * UnitsPerDay)

\* --------------------------------------------------------------------- C8
\* C8: for every combination of naive and offset-carrying created and
\* terminal timestamps, calculate_approval_time returns the difference of
\* the two instants normalized to UTC, a naive timestamp read as UTC.
C8_UtcNormalized ==
    (Timed /\ Resolvable(proposal.created_at) /\ Resolvable(Terminal(proposal)))
        => approval_time_days =
              FloatTime(Instant(Terminal(proposal)) - Instant(proposal.created_at))

\* --------------------------------------------------------------------- C9
\* C9 (as stated): approval_time_days is null if and only if neither
\* merged_at nor closed_at is resolvable.
C9_NullIffNoTerminal ==
    Timed => (approval_time_days = NoneTime <=>
                 ~(Resolvable(proposal.merged_at) \/ Resolvable(proposal.closed_at)))

\* C9 (amended): calculate_approval_time returns null if and only if
\* created_at is not resolvable or neither merged_at nor closed_at is.
C9_NullIffNoCreatedOrNoTerminal ==
    Timed => (approval_time_days = NoneTime <=>
                 \/ ~Resolvable(proposal.created_at)
                 \/ ~(Resolvable(proposal.merged_at) \/ Resolvable(proposal.closed_at)))

\* a resolvable terminal timestamp without a resolvable creation: null
C9_Witness ==
    /\ Timed
    /\ ~Resolvable(proposal.created_at)
    /\ Resolvable(proposal.merged_at)
    /\ approval_time_days = NoneTime

\* -------------------------------------------------------------------- C10
\* C10: when the terminal timestamp precedes the creation timestamp,
\* calculate_approval_time returns the raw negative number of days, neither
\* clamped to zero, nor null, nor the absolute value.
C10_RawNegative ==
    (/\ Timed
     /\ Resolvable(proposal.created_at)
     /\ Resolvable(Terminal(proposal))
     /\ Instant(Terminal(proposal)) < Instant(proposal.created_at))
        => /\ approval_time_days.tag = "float"
           /\ approval_time_days.units < 0
           /\ approval_time_days.units =
                 Instant(Terminal(proposal)) - Instant(proposal.created_at)

\* --------------------------------------------------------------------- C5
\* the fields of a row that the classification reads
SameInput(a, b) ==
    /\ a.state = b.state
    /\ a.merged = b.merged
    /\ a.created_at = b.created_at
    /\ a.merged_at = b.merged_at
    /\ a.labels = b.labels

\* C5: the current time is captured once per process_all_proposals run, so
\* two records of one batch with identical state, created_at, merge fields
\* and labels receive the same category, however long the batch takes.
C5_OneClockPerBatch ==
    pc = "returned" =>
        \A i, j \in 1..Len(df) :
            SameInput(df[i], df[j]) => df[i].category = df[j].category

\* --------------------------------------------------------------------- C6
\* C6: process_all_proposals never propagates an exception; a record whose
\* processing fails is skipped and logged, the others are processed, and the
\* returned table has one row per record whose processing succeeded.
C6_SkipAndLogNeverAbort ==
    /\ pc /= "raised"
    /\ pc = "returned" =>
          /\ Len(df) + errors = Len(Flatten(proposals))
          /\ \A i \in 1..Len(df) :
                \A c \in 1..3 : DateColumns(df[i])[c].fmt /= "garbage"

\* C11: process_all_proposals given zero records (no repositories, or
\* only empty lists) returns without error an empty table that carries
\* every column a processed proposal has
C11_EmptyInputFullColumns ==
    Flatten(proposals) = <<>> =>
        /\ pc /= "raised"
        /\ pc = "returned" => df = <<>> /\ df_columns = RowKeys

C11_Witness ==
    /\ pc = "returned"
    /\ Len(proposals) > 0
    /\ Flatten(proposals) = <<>>
    /\ df_columns = RowKeys

\* ------------------------------------------- vocabulary of the aggregations
Measured == op = "calculate_performance_metrics"
Analysed == op = "show_curator_analysis"

\* row numbers of the table: of a category, of a repository, with a
\* non-null approval time
RowsOf(cat)    == {i \in DOMAIN table : table[i].category = cat}
RowsIn(repo)   == {i \in DOMAIN table : table[i].repository = repo}
Sampled(I)     == {i \in I : table[i].approval_time_days.tag = "float"}
Days_(i)       == table[i].approval_time_days.units
ReposPresent   == {table[i].repository : i \in DOMAIN table}

InUnitInterval(r) == r.den > 0 /\ 0 <= r.num /\ r.num <= r.den
SameRatio(a, b)   == a.den /= 0 /\ b.den /= 0 /\ a.num * b.den = b.num * a.den

RECURSIVE TotalDays(_)
TotalDays(I) ==
    IF I = {} THEN 0
    ELSE LET i == CHOOSE j \in I : TRUE IN Days_(i) + TotalDays(I \ {i})

\* r is the mean, a median, the least, the greatest of the samples I
IsMean(r, I)   == r.den /= 0 /\ r.num * Cardinality(I) = TotalDays(I) * r.den
IsMedian(r, I) ==
    /\ r.den > 0
    /\ 2 * Cardinality({i \in I : Days_(i) * r.den < r.num}) <= Cardinality(I)
    /\ 2 * Cardinality({i \in I : Days_(i) * r.den > r.num}) <= Cardinality(I)
IsMin(r, I) ==
    \E i \in I : SameRatio(r, Whole(Days_(i))) /\ \A j \in I : Days_(i) <= Days_(j)
IsMax(r, I) ==
    \E i \in I : SameRatio(r, Whole(Days_(i))) /\ \A j \in I : Days_(i) >= Days_(j)

TimeKeys ==
    {"avg_approval_time_days", "median_approval_time_days",
     "min_approval_time_days", "max_approval_time_days"}

RECURSIVE SumOver(_, _, _)
\* the sum of one entry over the repositories R
SumOver(pm, key, R) ==
    IF R = {} THEN 0
    ELSE LET r == CHOOSE x \in R : TRUE IN pm[r][key] + SumOver(pm, key, R \ {r})

\* the identifiers a row lists as its curators
CuratorSet(row) ==
    IF row.curators.kind \in {"list", "json"} THEN Range(row.curators.items) ELSE {}

RECURSIVE SetSizes(_)
SetSizes(I) ==
    IF I = {} THEN 0
    ELSE LET i == CHOOSE j \in I : TRUE
         IN  Cardinality(CuratorSet(table[i])) + SetSizes(I \ {i})

\* C12: the approval rate lies in [0,1], is approved_proposals /
\* total_proposals when the table has rows, and is 0 for the empty table
C12_ApprovalRate ==
    Measured =>
        /\ InUnitInterval(metrics.approval_rate)
        /\ metrics.total_proposals = Len(table)
        /\ metrics.approved_proposals = Cardinality(RowsOf("APPROVED"))
        /\ Len(table) > 0 =>
              SameRatio(metrics.approval_rate,
                        Ratio(metrics.approved_proposals, metrics.total_proposals))
        /\ Len(table) = 0 => metrics.approval_rate.num = 0

C12_Witness ==
    /\ Measured
    /\ Len(table) = 0
    /\ metrics.approval_rate = Whole(0)

\* C13: mean, median, min and max of the approval time are taken over the
\* rows with a non-null approval time only and are absent when there is no
\* such row, in the overall metrics and in every per-repository entry
C13_TimeStatsOverSamplesOrAbsent ==
    Measured =>
        /\ Sampled(DOMAIN table) = {} => TimeKeys \cap DOMAIN metrics = {}
        /\ Sampled(DOMAIN table) /= {} =>
              /\ TimeKeys \subseteq DOMAIN metrics
              /\ IsMean(metrics.avg_approval_time_days, Sampled(DOMAIN table))
              /\ IsMedian(metrics.median_approval_time_days, Sampled(DOMAIN table))
              /\ IsMin(metrics.min_approval_time_days, Sampled(DOMAIN table))
              /\ IsMax(metrics.max_approval_time_days, Sampled(DOMAIN table))
        /\ \A repo \in DOMAIN metrics.program_metrics :
              LET entry == metrics.program_metrics[repo]
              IN  /\ Sampled(RowsIn(repo)) = {} =>
                        "avg_approval_time" \notin DOMAIN entry
                  /\ Sampled(RowsIn(repo)) /= {} =>
                        /\ "avg_approval_time" \in DOMAIN entry
                        /\ IsMean(entry.avg_approval_time, Sampled(RowsIn(repo)))

\* C14: every repository of the table has an entry whose counts and rate
\* are those of its own rows, and the entries add up to the overall counts
C14_PerRepositoryCounts ==
    Measured =>
        LET pm == metrics.program_metrics
        IN  /\ DOMAIN pm = ReposPresent
            /\ \A repo \in ReposPresent :
                  /\ pm[repo].total = Cardinality(RowsIn(repo))
                  /\ pm[repo].approved = Cardinality(RowsIn(repo) \cap RowsOf("APPROVED"))
                  /\ pm[repo].rejected = Cardinality(RowsIn(repo) \cap RowsOf("REJECTED"))
                  /\ pm[repo].pending = Cardinality(RowsIn(repo) \cap RowsOf("PENDING"))
                  /\ pm[repo].stale = Cardinality(RowsIn(repo) \cap RowsOf("STALE"))
                  /\ SameRatio(pm[repo].approval_rate,
                               Ratio(pm[repo].approved, pm[repo].total))
            /\ SumOver(pm, "total", DOMAIN pm) = metrics.total_proposals
            /\ SumOver(pm, "approved", DOMAIN pm) = metrics.approved_proposals
            /\ SumOver(pm, "rejected", DOMAIN pm) = metrics.rejected_proposals
            /\ SumOver(pm, "pending", DOMAIN pm) = metrics.pending_proposals
            /\ SumOver(pm, "stale", DOMAIN pm) = metrics.stale_proposals

C14_Witness ==
    /\ Measured
    /\ Cardinality(DOMAIN metrics.program_metrics) = 2
    /\ metrics.approved_proposals = 2
    /\ \A repo \in DOMAIN metrics.program_metrics :
          metrics.program_metrics[repo].approved = 1

\* C15: in the per-curator tally a proposal counts once for each of its
\* curators: a curator's total is the number of proposals listing the
\* curator, and the totals add up to the sum of the curator-set sizes
C15_CuratorFanOut ==
    Analysed =>
        LET counts == curator_analysis.curator_counts
            listing(c) == {i \in DOMAIN table : c \in CuratorSet(table[i])}
        IN  /\ DOMAIN counts = UNION {CuratorSet(table[i]) : i \in DOMAIN table}
            /\ \A c \in DOMAIN counts :
                  /\ counts[c] = Cardinality(listing(c))
                  /\ Range(curator_analysis.curator_proposals[c]) = listing(c)
                  /\ Len(curator_analysis.curator_proposals[c]) = counts[c]
            /\ Len(curator_analysis.all_curators) = SetSizes(DOMAIN table)

C15_Witness ==
    /\ Analysed
    /\ Len(curator_analysis.all_curators) > Len(table)
    /\ \E c \in DOMAIN curator_analysis.curator_counts :
          curator_analysis.curator_counts[c] >= 2

\* ------------------------------------------- vocabulary of the extractions
NoDuplicates(s) == \A i, j \in DOMAIN s : s[i] = s[j] => i = j

\* the texts of the model that hold a rejection keyword once lower-cased
RejectingTexts == {Reject, NotApproved, Denied}

\* the comments, by position, that hold a rejection keyword
Hits(p) == {i \in DOMAIN p.comments : p.comments[i].body \in RejectingTexts}

\* C16: the curators of a processed proposal are distinct identifiers,
\* none of them the login of the proposal's author
C16_CuratorsDistinctFromAuthor ==
    op = "extract_curators" =>
        /\ NoDuplicates(curators)
        /\ proposal.user \notin Range(curators)

\* C17: no reason for a merged proposal; otherwise the body of the first
\* comment holding a rejection keyword in any letter case, and no reason
\* when no comment holds one, as with an empty comment list
C17_FirstRejectingComment ==
    op = "extract_rejection_reason" =>
        /\ proposal.merged => rejection_reason = NoneReason
        /\ ~proposal.merged /\ Hits(proposal) = {} => rejection_reason = NoneReason
        /\ ~proposal.merged /\ Hits(proposal) /= {} =>
              \E i \in Hits(proposal) :
                  /\ \A j \in Hits(proposal) : i <= j
                  /\ rejection_reason = Reason(proposal.comments[i].body)
        /\ proposal.comments = <<>> => rejection_reason = NoneReason

C17_Witness ==
    /\ op = "extract_rejection_reason"
    /\ ~proposal.merged
    /\ Len(proposal.comments) = 2
    /\ proposal.comments[1].body = Approved
    /\ proposal.comments[2].body = Reject
    /\ rejection_reason = Reason(Reject)

\* an evaluation was returned
Evaluated == op = "analyze_proposal_content" /\ evaluation.exc = ""

Scores  == evaluation.evaluation.criteria_scores
Overall == evaluation.evaluation.overall_score

\* 0 <= x <= 1
InZeroOne(x) == (~x.neg \/ Norm(x.mag) = <<>>) /\ ~FLess(One, x)

AllScores(x) == \A c \in DOMAIN Scores : Scores[c] = x

\* C18: every criterion score of an evaluation lies in [0, 1], and so does
\* its overall score.
C18_ScoresInUnitInterval ==
    Evaluated =>
        /\ \A c \in DOMAIN Scores : InZeroOne(Scores[c])
        /\ InZeroOne(Overall)

\* a criterion reaches the upper end while the overall score stays inside
C18_Witness ==
    /\ Evaluated
    /\ Scores.completeness = One
    /\ FLess(Zero, Overall)
    /\ FLess(Overall, One)

\* the weights of the claim, in twentieths
Twentieths ==
    [completeness |-> 5, clarity |-> 4, feasibility |-> 5, impact |-> 4,
     milestones |-> 2]

RECURSIVE SumOfTwentieths(_)
SumOfTwentieths(keys) ==
    IF keys = {} THEN 0
    ELSE LET c == CHOOSE k \in keys : TRUE
         IN  Twentieths[c] + SumOfTwentieths(keys \ {c})

\* twenty times the weighted sum of the scores, without rounding
RECURSIVE WeightedSum(_, _)
WeightedSum(scores, keys) ==
    IF keys = {} THEN <<>>
    ELSE LET c == CHOOSE k \in keys : TRUE
         IN  BigAdd(BigMulSmall(scores[c].mag, Twentieths[c]),
                    WeightedSum(scores, keys \ {c}))

Distance(a, b) ==
    IF BigLess(Norm(a), Norm(b)) THEN BigSub(b, a) ELSE BigSub(a, b)

\* the overall score is the weighted sum up to 2^-51
NearWeightedSum ==
    ~BigLess(ShiftLeft(<<20>>, LimbBits * FracLimbs - 51),
             Norm(Distance(BigMulSmall(Overall.mag, 20),
                           WeightedSum(Scores, DOMAIN Scores))))

\* the weights are the claim's, one for every score, and sum to 1
WeightsAsClaimed ==
    /\ DOMAIN Scores = DOMAIN evaluation_criteria
    /\ DOMAIN Scores = DOMAIN Twentieths
    /\ \A c \in DOMAIN Scores :
          evaluation_criteria[c].weight = FDiv(Twentieths[c], 20)
    /\ SumOfTwentieths(DOMAIN Twentieths) = 20

\* the largest double below 1
BelowOne ==
    Float(FALSE, BigSub(One.mag, ShiftLeft(<<1>>, LimbBits * FracLimbs - Mantissa)))

\* C19 as stated: the overall score is the weighted sum of the criterion
\* scores under weights that sum to 1, each score has a weight, five scores
\* of 1 give exactly 1 and five of 0 give 0.
C19_WeightedSumExact ==
    Evaluated =>
        /\ WeightsAsClaimed
        /\ NearWeightedSum
        /\ (AllScores(One) => Overall = One)
        /\ (AllScores(Zero) => Overall = Zero)

\* C19: the overall score is the double-precision weighted sum of the
\* criterion scores, within 2^-51 of the exact one, under weights that sum
\* to 1, each score has a weight; five scores of 0 give 0, and five of 1
\* give 1 or the double just below it, depending on how sum() adds.
C19_WeightedSumRounded ==
    Evaluated =>
        /\ WeightsAsClaimed
        /\ NearWeightedSum
        /\ (AllScores(One) =>
               /\ Overall \in {One, BelowOne}
               /\ sum_mode = "compensated" => Overall = One
               /\ sum_mode = "naive" => Overall = BelowOne)
        /\ (AllScores(Zero) => Overall = Zero)

\* five scores of 1 added left to right
C19_Witness ==
    /\ Evaluated
    /\ AllScores(One)
    /\ sum_mode = "naive"
    /\ Overall = BelowOne

\* the level of the claim for a score p/q
Level(p, q) ==
    IF 10 * p >= 8 * q THEN "LOW"
    ELSE IF 10 * p >= 6 * q THEN "MEDIUM"
    ELSE IF 10 * p >= 4 * q THEN "HIGH"
    ELSE "VERY_HIGH"

\* the level of the claim for a double
LevelOf(x) ==
    IF ~FLess(x, FDiv(80, 100)) THEN "LOW"
    ELSE IF ~FLess(x, FDiv(60, 100)) THEN "MEDIUM"
    ELSE IF ~FLess(x, FDiv(40, 100)) THEN "HIGH"
    ELSE "VERY_HIGH"

\* C20: the risk level is LOW from 0.80, MEDIUM from 0.60, HIGH from 0.40
\* and VERY_HIGH below, with inclusive lower bounds, whatever the bounty.
C20_RiskLevelByScoreAlone ==
    /\ op = "determine_risk_level" =>
          risk_level = Level(risk_args.score[1], risk_args.score[2])
    /\ Evaluated => evaluation.evaluation.risk_level = LevelOf(Overall)

\* exactly 0.80 with the largest bounty
C20_Witness ==
    /\ op = "determine_risk_level"
    /\ risk_args.score = <<8, 10>>
    /\ risk_args.bounty_amount = 1000000
    /\ risk_level = "LOW"

\* the criteria a list of lines speaks of
Named(lines) == {lines[i] : i \in DOMAIN lines}

Above(x, p, q) == FLess(FDiv(p, q), x)
Below(x, p, q) == FLess(x, FDiv(p, q))

\* C21: a criterion has a strength line exactly when its score is above 0.7,
\* and a weakness line and a recommendation exactly when its score is below
\* 0.5; a score in [0.5, 0.7] gives none of the three.
C21_LinesByThreshold ==
    Evaluated =>
        \A c \in DOMAIN Scores :
            /\ c \in Named(evaluation.evaluation.strengths) <=> Above(Scores[c], 7, 10)
            /\ c \in Named(evaluation.evaluation.weaknesses) <=> Below(Scores[c], 5, 10)
            /\ c \in Named(evaluation.evaluation.recommendations) <=> Below(Scores[c], 5, 10)

\* C22: analyze_proposal_content returns a report for every proposal, also
\* when title, description, milestones or bounty_amount is missing or null.
C22_TotalOverSparseProposals ==
    op = "analyze_proposal_content" => evaluation.exc = ""

Reported == op = "generate_curator_report"

\* the approval probability of the claim for a score
StepProbability(x) ==
    IF ~Below(x, 8, 10) THEN FDiv(85, 100)
    ELSE IF ~Below(x, 7, 10) THEN FDiv(70, 100)
    ELSE IF ~Below(x, 6, 10) THEN FDiv(50, 100)
    ELSE IF ~Below(x, 5, 10) THEN FDiv(30, 100)
    ELSE FDiv(15, 100)

\* C30: the recommendation of the report follows from the overall score
\* through the stepwise probability: APPROVE from 0.7, REJECT below 0.5,
\* REVIEW_FURTHER between; LOW risk is never REJECT, VERY_HIGH never APPROVE.
C30_RecommendationByScore ==
    Reported =>
        /\ evaluation.evaluation.estimated_approval_probability = StepProbability(Overall)
        /\ report = "APPROVE" <=> ~Below(Overall, 7, 10)
        /\ report = "REJECT" <=> Below(Overall, 5, 10)
        /\ report = "REVIEW_FURTHER" <=> (~Below(Overall, 5, 10) /\ Below(Overall, 7, 10))
        /\ evaluation.evaluation.risk_level = "LOW" => report /= "REJECT"
        /\ evaluation.evaluation.risk_level = "VERY_HIGH" => report /= "APPROVE"

\* a score between the two bounds
C30_Witness ==
    /\ Reported
    /\ report = "REVIEW_FURTHER"
    /\ evaluation.evaluation.risk_level = "HIGH"

\* C23: the metrics loaded are exactly those of the latest save_metrics,
\* names and values, on either backend; no name of an earlier run survives.
C23_LatestMetricsReplaceEarlier ==
    load_metrics = saved_metrics

StoredCount == Len(saved_proposals.rows)

\* C24: on the session state, has_data is true exactly when the latest of
\* the save_proposals and clear_storage calls saved at least one proposal,
\* load_proposals returns as many rows as it stored, and get_storage_info
\* reports that count.
C24_SessionStateTracksLatestSave ==
    backend = "session_state" =>
        /\ has_data <=> StoredCount >= 1
        /\ Len(load_proposals) = StoredCount
        /\ get_storage_info(session_state).proposals_count = StoredCount

\* a table was saved after something else had been stored
C24_Witness ==
    /\ backend = "session_state"
    /\ saved_proposals.form = "frame"
    /\ StoredCount = 1
    /\ "metrics" \in DOMAIN session_state
    /\ has_data

\* C26: on SQLite, after the processed table with n >= 1 rows was saved,
\* load_proposals returns n rows and has_data is true.
C26_SqliteTableRoundTrip ==
    (backend = "sqlite" /\ saved_proposals.form = "frame" /\ StoredCount >= 1) =>
        /\ Len(load_proposals) = StoredCount
        /\ has_data


\* -------------------------------------- extract_milestones (SpecMilestones)
InitMilestones ==
    /\ now = StartNow
    /\ CallInit
    /\ BatchIdle
    /\ AuxIdle

ExtractMilestones ==
    /\ op = "idle"
    /\ \E body \in Bodies :
          /\ milestone_text' = body
          /\ milestones_found' = extract_milestones(body)
    /\ op' = "extract_milestones"
    /\ UNCHANGED <<now, proposal, category, approval_time_days, processed,
                   batchVars, metricVars, extractVars, evalVars, storeVars,
                   fetchVars>>

MilestonesReturn ==
    /\ op = "extract_milestones"
    /\ op' = "idle"
    /\ milestone_text' = NoBody
    /\ milestones_found' = 0
    /\ UNCHANGED <<now, proposal, category, approval_time_days, processed,
                   batchVars, metricVars, extractVars, evalVars, storeVars,
                   fetchVars>>

NextMilestones ==
    \/ ExtractMilestones
    \/ MilestonesReturn

SpecMilestones == InitMilestones /\ [][NextMilestones]_vars

\* every number a milestone, phase or stage pattern captures in a text
NumericMatches(tokens) ==
    UNION {findall(milestone_patterns[k], tokens) : k \in DOMAIN milestone_patterns}

\* C25: extract_milestones returns the largest number captured by any of the
\* patterns anywhere in the text; without a numeric match, the number of
\* times "milestone" occurs; and 0 for a text with neither, an empty text
\* or None.
C25_MaximumOverAllPatterns ==
    op = "extract_milestones" =>
        milestones_found =
            IF NumericMatches(milestone_text.tokens) /= {}
            THEN Largest(NumericMatches(milestone_text.tokens))
            ELSE milestone_mentions(milestone_text.tokens)

\* C27: a record that process_proposal categorises as APPROVED, by its merged
\* flag or by its merged_at, carries no rejection reason, whatever its
\* comments say.
C27_ApprovedHasNoRejectionReason ==
    (/\ op = "process_proposal"
     /\ "comments" \in DOMAIN proposal
     /\ processed.exc = ""
     /\ processed.row.category = "APPROVED")
        => rejection_reason = NoneReason

\* what the client received in answer to its request for page k
Received(k) ==
    IF Response(script, k).tag = "ok" THEN Response(script, k).data ELSE <<>>

RECURSIVE PagesThrough(_)
PagesThrough(k) == IF k = 0 THEN <<>> ELSE PagesThrough(k - 1) \o Received(k)

\* the answer to the request for page k is empty, failed or short of per_page
Ending(k) ==
    \/ Response(script, k).tag /= "ok"
    \/ Len(Response(script, k).data) < PerPage

PagedInOrder ==
    /\ requested = [i \in 1..Len(requested) |-> i]
    /\ \A k \in 1..Len(requested) :
          Ending(k) <=> (k = Len(requested) /\ fetch_pc \in {"returned", "raised"})
    /\ fetch_pc = "loop" => page = Len(requested) + 1
    /\ fetch_pc = "raised" => Response(script, Len(requested)).tag = "invalid"
    /\ fetch_pc \in {"loop", "returned"} => all_prs = PagesThrough(Len(requested))

Pulls(k) == get_pull_requests(remotes[k].script, 1, <<>>)

\* a request for a page of the repository failed or could not be read
FetchTrouble(k) == Response(remotes[k].script, Pulls(k).page).tag /= "ok"

\* a request of the enrichment that was made failed or could not be read
EnrichTrouble(k) ==
    /\ Pulls(k).pc = "returned"
    /\ remotes[k].fault.at \in DOMAIN Pulls(k).all_prs

Troubled(k) == FetchTrouble(k) \/ EnrichTrouble(k)

\* an exception reached the except clause of the repository's turn
Raised(k) ==
    \/ Pulls(k).pc = "raised"
    \/ EnrichTrouble(k) /\ remotes[k].fault.tag = "invalid"

Numbers(prs) == [i \in DOMAIN prs |-> prs[i].number]

\* one key per configured repository handled so far, all of them on return
OneKeyPerRepository ==
    /\ DOMAIN all_proposals =
          {GRANT_REPOSITORIES[i] : i \in 1..Cardinality(DOMAIN all_proposals)}
    /\ fetch_pc = "returned" => DOMAIN all_proposals = Range(GRANT_REPOSITORIES)

TaggedWithKey ==
    \A k \in DOMAIN all_proposals : \A i \in DOMAIN all_proposals[k] :
        all_proposals[k][i].repository = k

\* a turn of the loop leaves the lists stored before it alone
OthersUntouched ==
    fetch_pc = "loop" =>
        \A k \in DOMAIN all_proposals :
            k \in DOMAIN all_proposals' /\ all_proposals'[k] = all_proposals[k]

\* C29 as stated: one key per configured repository; any failure while
\* fetching or enriching a repository leaves its list empty and the other
\* lists alone; every proposal carries the key of its repository.
C29_FailureYieldsEmptyList ==
    /\ [](/\ OneKeyPerRepository
          /\ TaggedWithKey
          /\ \A k \in DOMAIN all_proposals :
                Troubled(k) => all_proposals[k] = <<>>)
    /\ [][OthersUntouched]_vars

\* C29, amended: one key per configured repository; an exception raised
\* while fetching or enriching a repository leaves its list empty, while a
\* request that merely fails is absorbed and the list holds the pull
\* requests of the pages received; the other lists are left alone; every
\* proposal carries the key of its repository.
C29_ExceptionYieldsEmptyList ==
    /\ [](/\ OneKeyPerRepository
          /\ TaggedWithKey
          /\ \A k \in DOMAIN all_proposals :
                IF Raised(k) THEN all_proposals[k] = <<>>
                ELSE Numbers(all_proposals[k]) = Numbers(Pulls(k).all_prs))
    /\ [][OthersUntouched]_vars

C29_Witness ==
    /\ fetch_pc = "returned"
    /\ \E k, j \in DOMAIN all_proposals :
          /\ Raised(k)
          /\ all_proposals[k] = <<>>
          /\ Troubled(j)
          /\ all_proposals[j] /= <<>>

====
